---- MODULE Spec2Model ----
(***************************************************************************)
(* Presence and group-messaging coordinator of the chat server             *)
(* (src/database.sql, lines 53-973: the Socket.io handlers and the read    *)
(* routes) together with the schema it runs on (lines 1-52).               *)
(*                                                                         *)
(* The store is reached through ONE mysql2 connection (line 95), so the    *)
(* queries the handlers issue form a FIFO command queue: the head query is *)
(* executed and its callback runs to completion before the next query is   *)
(* executed.  Socket events arrive between two such steps.                 *)
(***************************************************************************)
EXTENDS Integers, Sequences, FiniteSets, Bags, TLC

VARIABLES
    sockets,         \* transport session of every socket id: "new", "open", "closed"
    connectedUsers,  \* the Map socket.id -> entry, as its insertion-ordered entries
    rooms,           \* socket id -> the group rooms the adapter holds it in
    chat_groups,     \* rows of table chat_groups
    group_members,   \* rows of table group_members, as a bag of (group_id, user_id)
    messages,        \* rows of table messages
    nextMsgId,       \* AUTO_INCREMENT of messages.id
    nextGroupRowId,  \* AUTO_INCREMENT of chat_groups.id
    hasIsGroup,      \* whether table messages has the optional column is_group
    queue,           \* queries issued on the connection and not yet executed
    now,             \* Date.now()
    emitted,         \* what the last step emitted, in order
    resp,            \* the store's reply handled by the last step (NoResp for an event)
    budget,          \* client events the run may still handle
    faults,          \* store failures injected so far
    crashed          \* the server process has died of an uncaught exception

vars == <<sockets, connectedUsers, rooms, chat_groups, group_members, messages,
          nextMsgId, nextGroupRowId, hasIsGroup, queue, now, emitted, resp,
          budget, faults, crashed>>

---------------------------------------------------------------------------
(* Bounds of the model *)

MaxEvents == 3
MaxFaults == 1
MaxClock == 2

\* socket ids of the transport sessions that may open
Conns == {"s1", "s2", "s3"}

\* ids of the rows of table users (registration is outside the coordinator)
Users == {1, 2, 3}

\* users.name of a registered user
NameOf(u) == CASE u = 1 -> "Ann" [] u = 2 -> "Bo" [] u = 3 -> "Cy" [] OTHER -> "?"

---------------------------------------------------------------------------
(* Identifiers as the client sends them: a number or its text *)

Num(n) == [v |-> n, txt |-> FALSE]
Txt(n) == [v |-> n, txt |-> TRUE]

\* JavaScript a == b on numbers and numeric strings
LooseEq(a, b) == a.v = b.v

\* JavaScript a === b (also Array.prototype.includes)
StrictEq(a, b) == a = b

\* parseInt(a), and MySQL's conversion of a parameter bound to an INT column
ToInt(a) == a.v

\* 'group_' + Date.now()
GroupIdAt(t) == <<"group_", t>>

NoSocket == "null"
NoGroup == <<"none", 0>>
NoUser == [socketId |-> NoSocket, userId |-> Num(0), userName |-> "", online |-> FALSE]

\* a query on the connection with what its callback closes over: the socket,
\* its userData, the group id and the message
Query(kind, c, ud, g, m) == [q |-> kind, sock |-> c, ud |-> ud, g |-> g, m |-> m]

NoQuery == Query("none", NoSocket, NoUser, NoGroup, "")

\* (err, result) as a callback receives them, with the query they answer
Reply(qr, err, id) == [q |-> qr, err |-> err, insertId |-> id]

NoResp == Reply(NoQuery, "none", 0)

---------------------------------------------------------------------------
(* connectedUsers: a JavaScript Map keyed by socket id *)

MapHas(m, k) == \E i \in DOMAIN m : m[i].socketId = k

MapGet(m, k) ==
    IF MapHas(m, k) THEN m[CHOOSE i \in DOMAIN m : m[i].socketId = k] ELSE NoUser

\* a set that does not look for the key
MapSet_Append(m, k, e) == Append(m, e)

\* Map.prototype.set: an existing key keeps its place in the iteration order
MapSet(m, k, e) ==
    IF MapHas(m, k)
    THEN [i \in DOMAIN m |-> IF m[i].socketId = k THEN e ELSE m[i]]
    ELSE Append(m, e)

\* a delete that deletes nothing
MapDelete_Nothing(m, k) == m

\* Map.prototype.delete
MapDelete(m, k) == SelectSeq(m, LAMBDA e : e.socketId # k)

\* a handler that goes on without an entry
HasUserData_Always(c) == TRUE

\* const userData = connectedUsers.get(socket.id); if (!userData) return;
HasUserData(c) == MapHas(connectedUsers, c)

findSocketIdByUserId(userId) ==
    LET hits == {i \in DOMAIN connectedUsers : LooseEq(connectedUsers[i].userId, userId)}
    IN  IF hits = {} THEN NoSocket
        ELSE connectedUsers[CHOOSE i \in hits : \A j \in hits : i <= j].socketId

---------------------------------------------------------------------------
(* Socket.io emitters: the sockets an emit reaches *)

Connected == {c \in Conns : sockets[c] = "open"}

\* io.emit(...)
IoEmit == Connected

\* socket.broadcast.emit(...)
SocketBroadcast(c) == Connected \ {c}

\* socket.emit(...)
SocketEmit(c) == {c} \cap Connected

\* io.to(socketId).emit(...)
IoToSocket(sid) == {sid} \cap Connected

\* io.to(groupId).emit(...) over the rooms r
IoToRoom(r, g) == {c \in Connected : g \in r[c]}

---------------------------------------------------------------------------
(* Tables *)

Group(g) == {row \in chat_groups : row.group_id = g}

MemberRow(g, u) == [group_id |-> g, user_id |-> u]

\* SELECT ... FROM group_members WHERE group_id = g
MembersOf(g) == {u \in Users : CopiesIn(MemberRow(g, u), group_members) > 0}

\* the SELECT without its JOIN: every group
GroupsOfUser_All(u) ==
    {[groupId |-> row.group_id, name |-> row.name] : row \in chat_groups}

\* SELECT g.group_id, g.name FROM chat_groups g JOIN group_members gm
\*   ON g.group_id = gm.group_id WHERE gm.user_id = u
GroupsOfUser(u) ==
    {[groupId |-> row.group_id, name |-> row.name] :
        row \in {r \in chat_groups : CopiesIn(MemberRow(r.group_id, u), group_members) > 0}}

\* whether the store fails the query at the head of the queue for a reason of
\* its own (lost connection, lock wait timeout, ...)
FaultChoice == IF faults < MaxFaults THEN {FALSE, TRUE} ELSE {FALSE}


storeVars == <<chat_groups, group_members, messages, nextMsgId, nextGroupRowId, hasIsGroup>>

---------------------------------------------------------------------------
(* Transport *)

\* io.on('connection'): a transport session opens and its handlers are installed
Connect(c) ==
    /\ ~crashed
    /\ sockets[c] = "new"
    /\ sockets' = [sockets EXCEPT ![c] = "open"]
    /\ emitted' = <<>>
    /\ resp' = NoResp
    /\ UNCHANGED <<connectedUsers, rooms, storeVars, queue, now, budget, faults, crashed>>

\* socket.on('disconnect'): Socket.io has taken the socket out of its rooms
Disconnect(c) ==
    LET userData == MapGet(connectedUsers, c)
        reg == MapDelete(connectedUsers, c)
        rest == Connected \ {c}
    IN  /\ sockets[c] = "open"
        /\ sockets' = [sockets EXCEPT ![c] = "closed"]
        /\ rooms' = [rooms EXCEPT ![c] = {}]
        /\ IF MapHas(connectedUsers, c)
           THEN /\ connectedUsers' = reg
                /\ emitted' = <<[ev |-> "user-status-change", to |-> rest,
                                 userId |-> userData.userId,
                                 userName |-> userData.userName, online |-> FALSE],
                                [ev |-> "user-list", to |-> rest, list |-> reg]>>
           ELSE /\ connectedUsers' = connectedUsers
                /\ emitted' = <<>>
        /\ resp' = NoResp
        /\ UNCHANGED <<storeVars, queue, now, budget, faults, crashed>>

\* Date.now() advances
Tick ==
    /\ now < MaxClock
    /\ now' = now + 1
    /\ emitted' = <<>>
    /\ resp' = NoResp
    /\ UNCHANGED <<sockets, connectedUsers, rooms, storeVars, queue, budget, faults, crashed>>

---------------------------------------------------------------------------
(* socket.on('user-connected') *)

UserConnected(c, userId, userName) ==
    LET entry == [socketId |-> c, userId |-> userId, userName |-> userName,
                  online |-> TRUE]
        reg == MapSet(connectedUsers, c, entry)
    IN  /\ sockets[c] = "open"
        /\ budget > 0
        /\ budget' = budget - 1
        /\ connectedUsers' = reg
        /\ emitted' = <<[ev |-> "user-list", to |-> IoEmit, list |-> reg],
                        [ev |-> "user-status-change", to |-> SocketBroadcast(c),
                         userId |-> userId, userName |-> userName, online |-> TRUE]>>
        /\ queue' = queue \o <<Query("selectUsers", c, entry, NoGroup, ""),
                               Query("selectUserGroups", c, entry, NoGroup, "")>>
        /\ resp' = NoResp
        /\ UNCHANGED <<sockets, rooms, storeVars, now, faults, crashed>>

\* callback of SELECT id, name FROM users
DbSelectUsers ==
    /\ queue # <<>>
    /\ Head(queue).q = "selectUsers"
    /\ \E fault \in FaultChoice :
        LET qr == Head(queue)
            allUsers == [u \in Users |->
                            [userName |-> NameOf(u),
                             online |-> \E i \in DOMAIN connectedUsers :
                                            ToInt(connectedUsers[i].userId) = u]]
        IN  /\ queue' = Tail(queue)
            /\ faults' = IF fault THEN faults + 1 ELSE faults
            /\ resp' = Reply(qr, IF fault THEN "OTHER" ELSE "none", 0)
            /\ emitted' = IF fault THEN <<>>
                          ELSE <<[ev |-> "user-list", to |-> SocketEmit(qr.sock),
                                  list |-> allUsers]>>
            /\ UNCHANGED <<sockets, connectedUsers, rooms, storeVars, now, budget, crashed>>

\* callback of the SELECT of the user's groups: join them, then send group-list
DbSelectUserGroups ==
    /\ queue # <<>>
    /\ Head(queue).q = "selectUserGroups"
    /\ \E fault \in FaultChoice :
        LET qr == Head(queue)
            results == GroupsOfUser(ToInt(qr.ud.userId))
        IN  /\ queue' = Tail(queue)
            /\ faults' = IF fault THEN faults + 1 ELSE faults
            /\ resp' = Reply(qr, IF fault THEN "OTHER" ELSE "none", 0)
            /\ rooms' = IF fault THEN rooms
                        ELSE [rooms EXCEPT ![qr.sock] = @ \cup {r.groupId : r \in results}]
            /\ emitted' = IF fault THEN <<>>
                          ELSE <<[ev |-> "group-list", to |-> SocketEmit(qr.sock),
                                  list |-> results]>>
            /\ UNCHANGED <<sockets, connectedUsers, storeVars, now, budget, crashed>>

---------------------------------------------------------------------------
(* socket.on('group-message') *)

\* the broadcast sent with io.emit instead of io.to(groupId)
sendGroupMessage_ToAll(insertId, groupId, userData, message) ==
    <<[ev |-> "group-message", to |-> IoEmit,
       messageId |-> insertId, groupId |-> groupId,
       fromUserId |-> userData.userId, fromUserName |-> userData.userName,
       message |-> message, isSystem |-> FALSE]>>

sendGroupMessage(insertId, groupId, userData, message) ==
    <<[ev |-> "group-message", to |-> IoToRoom(rooms, groupId),
       messageId |-> insertId, groupId |-> groupId,
       fromUserId |-> userData.userId, fromUserName |-> userData.userName,
       message |-> message, isSystem |-> FALSE]>>

\* a handler that goes to the insert without joining
LazyJoin_None(r, c, groupId) == r

\* lines 366-373: if (!rooms.includes(groupId)) socket.join(groupId)
LazyJoin(r, c, groupId) ==
    IF groupId \in r[c] THEN r ELSE [r EXCEPT ![c] = @ \cup {groupId}]

GroupMessage(c, groupId, message) ==
    LET userData == MapGet(connectedUsers, c)
    IN  /\ sockets[c] = "open"
        /\ budget > 0
        /\ budget' = budget - 1
        /\ emitted' = <<>>
        /\ resp' = NoResp
        /\ IF ~HasUserData(c)
           THEN UNCHANGED <<rooms, queue>>
           ELSE /\ rooms' = LazyJoin(rooms, c, groupId)
                /\ queue' = Append(queue, Query("insertGroupMessage", c, userData,
                                                groupId, message))
        /\ UNCHANGED <<sockets, connectedUsers, storeVars, now, faults, crashed>>

\* the error of INSERT INTO messages (...) for author userId, if any
InsertMessageError(fault, withIsGroup, userId) ==
    IF fault THEN "OTHER"
    ELSE IF withIsGroup /\ ~hasIsGroup THEN "ER_BAD_FIELD_ERROR"
    ELSE IF ToInt(userId) \notin Users THEN "ER_NO_REFERENCED_ROW_2"
    ELSE "none"

MessageRow(id, userId, content, roomId, isGroup) ==
    [id |-> id, user_id |-> ToInt(userId), content |-> content, room_id |-> roomId,
     is_group |-> IF ~hasIsGroup THEN "absent" ELSE IF isGroup THEN "true" ELSE "false"]

\* line 380/396: the callback broadcasts when the insert reported no error
GmBroadcastOn_Always(err) == TRUE

GmBroadcastOn(err) == err = "none"

\* line 382: the callback retries without the column on this error only
GmRetryOn_AnyError(err) == err # "none"

GmRetryOn_Never(err) == FALSE

GmRetryOn(err) == err = "ER_BAD_FIELD_ERROR"

\* callback of queryWithIsGroup
DbInsertGroupMessage ==
    /\ queue # <<>>
    /\ Head(queue).q = "insertGroupMessage"
    /\ \E fault \in FaultChoice :
        LET qr == Head(queue)
            err == InsertMessageError(fault, TRUE, qr.ud.userId)
        IN  /\ faults' = IF fault THEN faults + 1 ELSE faults
            /\ resp' = Reply(qr, err, IF err = "none" THEN nextMsgId ELSE 0)
            /\ IF err = "none"
               THEN /\ messages' = messages \cup
                                   {MessageRow(nextMsgId, qr.ud.userId, qr.m, qr.g, TRUE)}
                    /\ nextMsgId' = nextMsgId + 1
               ELSE UNCHANGED <<messages, nextMsgId>>
            /\ queue' = IF err # "none" /\ GmRetryOn(err)
                        THEN Append(Tail(queue),
                                    [qr EXCEPT !.q = "insertGroupMessageFallback"])
                        ELSE Tail(queue)
            /\ emitted' = IF GmBroadcastOn(err)
                          THEN sendGroupMessage(nextMsgId, qr.g, qr.ud, qr.m)
                          ELSE <<>>
            /\ UNCHANGED <<sockets, connectedUsers, rooms, chat_groups, group_members,
                           nextGroupRowId, hasIsGroup, now, budget, crashed>>

\* callback of queryWithoutIsGroup
DbInsertGroupMessageFallback ==
    /\ queue # <<>>
    /\ Head(queue).q = "insertGroupMessageFallback"
    /\ \E fault \in FaultChoice :
        LET qr == Head(queue)
            err == InsertMessageError(fault, FALSE, qr.ud.userId)
        IN  /\ faults' = IF fault THEN faults + 1 ELSE faults
            /\ resp' = Reply(qr, err, IF err = "none" THEN nextMsgId ELSE 0)
            /\ queue' = Tail(queue)
            /\ IF err = "none"
               THEN /\ messages' = messages \cup
                                   {MessageRow(nextMsgId, qr.ud.userId, qr.m, qr.g, FALSE)}
                    /\ nextMsgId' = nextMsgId + 1
               ELSE UNCHANGED <<messages, nextMsgId>>
            /\ emitted' = IF GmBroadcastOn(err)
                          THEN sendGroupMessage(nextMsgId, qr.g, qr.ud, qr.m)
                          ELSE <<>>
            /\ UNCHANGED <<sockets, connectedUsers, rooms, chat_groups, group_members,
                           nextGroupRowId, hasIsGroup, now, budget, crashed>>

---------------------------------------------------------------------------
(* socket.on('create-group') *)

SeqToSet(q) == {q[i] : i \in DOMAIN q}

\* lines 263-266: add the creator unless memberIds.includes(userData.userId)
WithCreator(memberIds, userId) ==
    IF \E i \in DOMAIN memberIds : StrictEq(memberIds[i], userId)
    THEN memberIds
    ELSE Append(memberIds, userId)

GroupQuery(kind, c, ud, g, name, ids, row) ==
    [q |-> kind, sock |-> c, ud |-> ud, g |-> g, m |-> name, ids |-> ids, row |-> row]

CreateGroup(c, groupName, memberIds) ==
    LET userData == MapGet(connectedUsers, c)
        groupId == GroupIdAt(now)
    IN  /\ sockets[c] = "open"
        /\ budget > 0
        /\ budget' = budget - 1
        /\ emitted' = <<>>
        /\ resp' = NoResp
        /\ queue' = IF ~HasUserData(c) THEN queue
                    ELSE Append(queue,
                                GroupQuery("insertGroup", c, userData, groupId, groupName,
                                           WithCreator(memberIds, userData.userId), 0))
        /\ UNCHANGED <<sockets, connectedUsers, rooms, storeVars, now, faults, crashed>>

\* the INSERT on a table whose group_id is not UNIQUE
InsertGroupError_NoUnique(fault, creatorId, groupId) ==
    IF fault THEN "OTHER"
    ELSE IF ToInt(creatorId) \notin Users THEN "ER_NO_REFERENCED_ROW_2"
    ELSE "none"

\* the error of INSERT INTO chat_groups (name, creator_id, group_id), if any
InsertGroupError(fault, creatorId, groupId) ==
    IF fault THEN "OTHER"
    ELSE IF Group(groupId) # {} THEN "ER_DUP_ENTRY"
    ELSE IF ToInt(creatorId) \notin Users THEN "ER_NO_REFERENCED_ROW_2"
    ELSE "none"

\* callback of INSERT INTO chat_groups
DbInsertGroup ==
    /\ queue # <<>>
    /\ Head(queue).q = "insertGroup"
    /\ \E fault \in FaultChoice :
        LET qr == Head(queue)
            err == InsertGroupError(fault, qr.ud.userId, qr.g)
        IN  /\ faults' = IF fault THEN faults + 1 ELSE faults
            /\ resp' = Reply(qr, err, IF err = "none" THEN nextGroupRowId ELSE 0)
            /\ IF err = "none"
               THEN /\ chat_groups' = chat_groups \cup
                                      {[id |-> nextGroupRowId, name |-> qr.m,
                                        creator_id |-> ToInt(qr.ud.userId),
                                        group_id |-> qr.g]}
                    /\ nextGroupRowId' = nextGroupRowId + 1
                    /\ emitted' = <<>>
                    /\ queue' = Append(Tail(queue),
                                       [qr EXCEPT !.q = "insertGroupMembers",
                                                  !.row = nextGroupRowId])
               ELSE /\ UNCHANGED <<chat_groups, nextGroupRowId>>
                    /\ emitted' = <<[ev |-> "group-created", to |-> SocketEmit(qr.sock),
                                     success |-> FALSE, error |-> "Failed to create group"]>>
                    /\ queue' = Tail(queue)
            /\ UNCHANGED <<sockets, connectedUsers, rooms, group_members, messages,
                           nextMsgId, hasIsGroup, now, budget, crashed>>

\* the error of a multi-row INSERT INTO group_members without ON DUPLICATE KEY:
\* the UNIQUE KEY (group_id, user_id) and the foreign key on user_id, checked on
\* the values as the INT column holds them
InsertMembersError(fault, groupId, ids) ==
    IF fault THEN "OTHER"
    ELSE IF \/ \E i, j \in DOMAIN ids : i # j /\ ToInt(ids[i]) = ToInt(ids[j])
            \/ \E i \in DOMAIN ids : CopiesIn(MemberRow(groupId, ToInt(ids[i])), group_members) > 0
         THEN "ER_DUP_ENTRY"
    ELSE IF \E i \in DOMAIN ids : ToInt(ids[i]) \notin Users THEN "ER_NO_REFERENCED_ROW_2"
    ELSE "none"

\* the rows a multi-row insert of ids adds, one per value
MemberRows(groupId, ids) ==
    [row \in {MemberRow(groupId, ToInt(ids[i])) : i \in DOMAIN ids} |->
        Cardinality({i \in DOMAIN ids : ToInt(ids[i]) = row.user_id})]

\* lines 311-330 with the join of the members' sockets left out
MemberSocketsToJoin_None(c, ids) == {}

\* lines 311-330: the sockets of the online members other than the creator's
\* socket, looked up in io.sockets.sockets
MemberSocketsToJoin(c, ids) ==
    {findSocketIdByUserId(ids[i]) : i \in DOMAIN ids} \cap (Connected \ {c})

\* lines 311-316: one group-created per member found in the registry, in order
GroupCreatedNotes(ids, group) ==
    LET found == SelectSeq(ids, LAMBDA id : findSocketIdByUserId(id) # NoSocket)
    IN  [i \in DOMAIN found |->
            [ev |-> "group-created", to |-> IoToSocket(findSocketIdByUserId(found[i])),
             success |-> TRUE, group |-> group]]

SystemMessage(r, groupId, text, who, by) ==
    [ev |-> "group-message", to |-> IoToRoom(r, groupId), groupId |-> groupId,
     fromUserId |-> "system", fromUserName |-> "System",
     message |-> text, about |-> who, by |-> by, isSystem |-> TRUE]

\* line 286 never taken
CreateCompletesOn_Always(err) == TRUE

\* line 286: if (err) { ... return; }
CreateCompletesOn(err) == err = "none"

\* callback of INSERT INTO group_members of create-group
DbInsertGroupMembers ==
    /\ queue # <<>>
    /\ Head(queue).q = "insertGroupMembers"
    /\ \E fault \in FaultChoice :
        LET qr == Head(queue)
            err == InsertMembersError(fault, qr.g, qr.ids)
            joined == [c \in Conns |->
                          IF c = qr.sock \/ c \in MemberSocketsToJoin(qr.sock, qr.ids)
                          THEN rooms[c] \cup {qr.g} ELSE rooms[c]]
            group == [id |-> qr.row, groupId |-> qr.g, name |-> qr.m,
                      creatorId |-> qr.ud.userId, memberIds |-> qr.ids]
        IN  /\ faults' = IF fault THEN faults + 1 ELSE faults
            /\ resp' = Reply(qr, err, 0)
            /\ queue' = Tail(queue)
            /\ IF CreateCompletesOn(err)
               THEN /\ group_members' = group_members (+) MemberRows(qr.g, qr.ids)
                    /\ rooms' = joined
                    /\ emitted' = GroupCreatedNotes(qr.ids, group) \o
                                  <<SystemMessage(joined, qr.g, "created", qr.m,
                                                  qr.ud.userName)>>
               ELSE /\ UNCHANGED <<group_members, rooms>>
                    /\ emitted' = <<[ev |-> "group-created", to |-> SocketEmit(qr.sock),
                                     success |-> FALSE, error |-> "Failed to add members"]>>
            /\ UNCHANGED <<sockets, connectedUsers, chat_groups, messages, nextMsgId,
                           nextGroupRowId, hasIsGroup, now, budget, crashed>>

---------------------------------------------------------------------------
(* socket.on('leave-group') *)

\* DELETE FROM group_members WHERE group_id = g AND user_id = u
DeleteMember(g, u) ==
    [row \in {r \in BagToSet(group_members) : ~(r.group_id = g /\ r.user_id = u)} |->
        CopiesIn(row, group_members)]

\* SELECT COUNT(*) FROM group_members WHERE group_id = g
MemberCount(g) ==
    LET rows == {r \in BagToSet(group_members) : r.group_id = g}
    IN  IF rows = {} THEN 0
        ELSE BagCardinality([row \in rows |-> CopiesIn(row, group_members)])

\* the process dies: every connection drops and the in-memory state is lost
Crash ==
    /\ crashed' = TRUE
    /\ sockets' = [c \in Conns |-> IF sockets[c] = "open" THEN "closed" ELSE sockets[c]]
    /\ connectedUsers' = <<>>
    /\ rooms' = [c \in Conns |-> {}]
    /\ queue' = <<>>
    /\ emitted' = <<>>

LeaveGroup(c, groupId) ==
    LET userData == MapGet(connectedUsers, c)
    IN  /\ sockets[c] = "open"
        /\ budget > 0
        /\ budget' = budget - 1
        /\ emitted' = <<>>
        /\ resp' = NoResp
        /\ queue' = IF ~HasUserData(c) THEN queue
                    ELSE Append(queue, Query("leaveDelete", c, userData, groupId, ""))
        /\ UNCHANGED <<sockets, connectedUsers, rooms, storeVars, now, faults, crashed>>

\* callback of DELETE FROM group_members of leave-group
DbLeaveDelete ==
    /\ queue # <<>>
    /\ Head(queue).q = "leaveDelete"
    /\ \E fault \in FaultChoice :
        LET qr == Head(queue)
            left == [rooms EXCEPT ![qr.sock] = @ \ {qr.g}]
        IN  /\ faults' = IF fault THEN faults + 1 ELSE faults
            /\ resp' = Reply(qr, IF fault THEN "OTHER" ELSE "none", 0)
            /\ IF fault
               THEN /\ UNCHANGED <<group_members, rooms>>
                    /\ queue' = Tail(queue)
                    /\ emitted' = <<[ev |-> "leave-group-result", to |-> SocketEmit(qr.sock),
                                     success |-> FALSE, error |-> "Failed to leave group"]>>
               ELSE /\ group_members' = DeleteMember(qr.g, ToInt(qr.ud.userId))
                    /\ rooms' = left
                    /\ queue' = Append(Tail(queue), [qr EXCEPT !.q = "leaveCount"])
                    /\ emitted' = <<[ev |-> "leave-group-result", to |-> SocketEmit(qr.sock),
                                     success |-> TRUE, groupId |-> qr.g],
                                    SystemMessage(left, qr.g, "left", qr.ud.userName, "")>>
            /\ UNCHANGED <<sockets, connectedUsers, chat_groups, messages, nextMsgId,
                           nextGroupRowId, hasIsGroup, now, budget, crashed>>

\* line 463 never true: the group outlives its last member
LeaveDeletesGroup_Never(memberCount) == FALSE

\* line 463: results[0].memberCount === 0
LeaveDeletesGroup(memberCount) == memberCount = 0

\* callback of SELECT COUNT(*) of leave-group
DbLeaveCount ==
    /\ queue # <<>>
    /\ Head(queue).q = "leaveCount"
    /\ \E fault \in FaultChoice :
        LET qr == Head(queue)
        IN  /\ faults' = IF fault THEN faults + 1 ELSE faults
            /\ resp' = Reply(qr, IF fault THEN "OTHER" ELSE "none", 0)
            /\ queue' = IF ~fault /\ LeaveDeletesGroup(MemberCount(qr.g))
                        THEN Append(Tail(queue), [qr EXCEPT !.q = "leaveDeleteGroup"])
                        ELSE Tail(queue)
            /\ emitted' = <<>>
            /\ UNCHANGED <<sockets, connectedUsers, rooms, storeVars, now, budget, crashed>>

\* DELETE FROM chat_groups issued without a callback: mysql2 emits an error it
\* cannot hand over on the query object, where nobody listens
DbLeaveDeleteGroup ==
    /\ queue # <<>>
    /\ Head(queue).q = "leaveDeleteGroup"
    /\ \E fault \in FaultChoice :
        LET qr == Head(queue)
        IN  /\ faults' = IF fault THEN faults + 1 ELSE faults
            /\ resp' = Reply(qr, IF fault THEN "OTHER" ELSE "none", 0)
            /\ IF fault
               THEN /\ Crash
                    /\ UNCHANGED chat_groups
               ELSE /\ chat_groups' = chat_groups \ Group(qr.g)
                    /\ queue' = Tail(queue)
                    /\ emitted' = <<>>
                    /\ UNCHANGED <<sockets, connectedUsers, rooms, crashed>>
            /\ UNCHANGED <<group_members, messages, nextMsgId, nextGroupRowId,
                           hasIsGroup, now, budget>>

---------------------------------------------------------------------------
(* socket.on('remove-group-member') *)

\* the creator check without its creator_id condition
GroupOfCreator_AnyCaller(g, userId) == Group(g)

\* the creator check without any condition
GroupOfCreator_AnyGroup(g, userId) == chat_groups

\* SELECT * FROM chat_groups WHERE group_id = g AND creator_id = userId
GroupOfCreator(g, userId) == {row \in Group(g) : row.creator_id = ToInt(userId)}

MemberQuery(kind, c, ud, g, ids, info) ==
    [q |-> kind, sock |-> c, ud |-> ud, g |-> g, m |-> "", ids |-> ids, info |-> info]

RemoveGroupMember(c, groupId, userId) ==
    LET userData == MapGet(connectedUsers, c)
    IN  /\ sockets[c] = "open"
        /\ budget > 0
        /\ budget' = budget - 1
        /\ emitted' = <<>>
        /\ resp' = NoResp
        /\ queue' = IF ~HasUserData(c) THEN queue
                    ELSE Append(queue, MemberQuery("removeVerify", c, userData, groupId,
                                                   <<userId>>, {}))
        /\ UNCHANGED <<sockets, connectedUsers, rooms, storeVars, now, faults, crashed>>

\* callback of the creator check of remove-group-member
DbRemoveVerify ==
    /\ queue # <<>>
    /\ Head(queue).q = "removeVerify"
    /\ \E fault \in FaultChoice :
        LET qr == Head(queue)
            results == GroupOfCreator(qr.g, qr.ud.userId)
        IN  /\ faults' = IF fault THEN faults + 1 ELSE faults
            /\ resp' = Reply(qr, IF fault THEN "OTHER" ELSE "none", 0)
            /\ queue' = IF fault \/ results = {} THEN Tail(queue)
                        ELSE Append(Tail(queue),
                                    [qr EXCEPT !.q = "removeSelectUser", !.info = results])
            /\ emitted' = <<>>
            /\ UNCHANGED <<sockets, connectedUsers, rooms, storeVars, now, budget, crashed>>

\* callback of SELECT name FROM users WHERE id = ?
DbRemoveSelectUser ==
    /\ queue # <<>>
    /\ Head(queue).q = "removeSelectUser"
    /\ \E fault \in FaultChoice :
        LET qr == Head(queue)
        IN  /\ faults' = IF fault THEN faults + 1 ELSE faults
            /\ resp' = Reply(qr, IF fault THEN "OTHER" ELSE "none", 0)
            /\ queue' = IF fault \/ ToInt(qr.ids[1]) \notin Users THEN Tail(queue)
                        ELSE Append(Tail(queue), [qr EXCEPT !.q = "removeDelete"])
            /\ emitted' = <<>>
            /\ UNCHANGED <<sockets, connectedUsers, rooms, storeVars, now, budget, crashed>>

\* callback of DELETE FROM group_members of remove-group-member
DbRemoveDelete ==
    /\ queue # <<>>
    /\ Head(queue).q = "removeDelete"
    /\ \E fault \in FaultChoice :
        LET qr == Head(queue)
            userId == qr.ids[1]
            userName == NameOf(ToInt(userId))
            groupInfo == CHOOSE row \in qr.info : TRUE
            removedUserSocketId == findSocketIdByUserId(userId)
            left == IF removedUserSocketId = NoSocket THEN rooms
                    ELSE [rooms EXCEPT ![removedUserSocketId] = @ \ {qr.g}]
            toRemoved == IF removedUserSocketId = NoSocket THEN <<>>
                         ELSE <<[ev |-> "member-removed",
                                 to |-> IoToSocket(removedUserSocketId),
                                 groupId |-> qr.g, groupName |-> groupInfo.name,
                                 userId |-> userId, userName |-> userName]>>
        IN  /\ faults' = IF fault THEN faults + 1 ELSE faults
            /\ resp' = Reply(qr, IF fault THEN "OTHER" ELSE "none", 0)
            /\ queue' = Tail(queue)
            /\ IF fault
               THEN /\ UNCHANGED <<group_members, rooms>>
                    /\ emitted' = <<>>
               ELSE /\ group_members' = DeleteMember(qr.g, ToInt(userId))
                    /\ rooms' = left
                    /\ emitted' = toRemoved \o
                                  <<[ev |-> "member-removed", to |-> IoToRoom(left, qr.g),
                                     groupId |-> qr.g, userId |-> userId,
                                     userName |-> userName],
                                    SystemMessage(left, qr.g, "removed", userName,
                                                  qr.ud.userName)>>
            /\ UNCHANGED <<sockets, connectedUsers, chat_groups, messages, nextMsgId,
                           nextGroupRowId, hasIsGroup, now, budget, crashed>>

---------------------------------------------------------------------------
(* socket.on('add-group-members') *)

AddGroupMembers(c, groupId, userIds) ==
    LET userData == MapGet(connectedUsers, c)
    IN  /\ sockets[c] = "open"
        /\ budget > 0
        /\ budget' = budget - 1
        /\ emitted' = <<>>
        /\ resp' = NoResp
        /\ queue' = IF ~HasUserData(c) THEN queue
                    ELSE Append(queue, MemberQuery("addVerify", c, userData, groupId,
                                                   userIds, {}))
        /\ UNCHANGED <<sockets, connectedUsers, rooms, storeVars, now, faults, crashed>>

\* callback of the creator check of add-group-members
DbAddVerify ==
    /\ queue # <<>>
    /\ Head(queue).q = "addVerify"
    /\ \E fault \in FaultChoice :
        LET qr == Head(queue)
            results == GroupOfCreator(qr.g, qr.ud.userId)
        IN  /\ faults' = IF fault THEN faults + 1 ELSE faults
            /\ resp' = Reply(qr, IF fault THEN "OTHER" ELSE "none", 0)
            /\ queue' = IF fault \/ results = {} THEN Tail(queue)
                        ELSE Append(Tail(queue),
                                    [qr EXCEPT !.q = "addInsert", !.info = results])
            /\ emitted' = <<>>
            /\ UNCHANGED <<sockets, connectedUsers, rooms, storeVars, now, budget, crashed>>

\* the INSERT of line 575 without its ON DUPLICATE KEY UPDATE clause, on a table
\* without the UNIQUE KEY: every value adds a row
UpsertMembers_Plain(groupId, ids) == group_members (+) MemberRows(groupId, ids)

\* INSERT INTO group_members ... ON DUPLICATE KEY UPDATE user_id = VALUES(user_id):
\* a value whose (group_id, user_id) is there already leaves its row in place
UpsertMembers(groupId, ids) ==
    LET new == {MemberRow(groupId, ToInt(ids[i])) : i \in DOMAIN ids}
    IN  [row \in BagToSet(group_members) \cup new |->
            IF row \in BagToSet(group_members) THEN CopiesIn(row, group_members) ELSE 1]

\* the error of the INSERT of line 575, if any: an empty VALUES list, or the
\* foreign key on user_id
UpsertMembersError(fault, ids) ==
    IF fault THEN "OTHER"
    ELSE IF ids = <<>> THEN "ER_PARSE_ERROR"
    ELSE IF \E i \in DOMAIN ids : ToInt(ids[i]) \notin Users THEN "ER_NO_REFERENCED_ROW_2"
    ELSE "none"

\* callback of the INSERT of add-group-members
DbAddInsert ==
    /\ queue # <<>>
    /\ Head(queue).q = "addInsert"
    /\ \E fault \in FaultChoice :
        LET qr == Head(queue)
            err == UpsertMembersError(fault, qr.ids)
        IN  /\ faults' = IF fault THEN faults + 1 ELSE faults
            /\ resp' = Reply(qr, err, 0)
            /\ group_members' = IF err = "none" THEN UpsertMembers(qr.g, qr.ids)
                                ELSE group_members
            /\ queue' = IF err = "none"
                        THEN Append(Tail(queue), [qr EXCEPT !.q = "addSelectUsers"])
                        ELSE Tail(queue)
            /\ emitted' = <<>>
            /\ UNCHANGED <<sockets, connectedUsers, rooms, chat_groups, messages, nextMsgId,
                           nextGroupRowId, hasIsGroup, now, budget, crashed>>

\* a set of user ids in ascending order, as SELECT ... FROM users returns them
RECURSIVE Ascending(_)
Ascending(S) ==
    IF S = {} THEN <<>>
    ELSE LET least == CHOOSE x \in S : \A y \in S : x <= y
         IN  <<least>> \o Ascending(S \ {least})

\* callback of SELECT id, name FROM users WHERE id IN (?)
DbAddSelectUsers ==
    /\ queue # <<>>
    /\ Head(queue).q = "addSelectUsers"
    /\ \E fault \in FaultChoice :
        LET qr == Head(queue)
            groupInfo == CHOOSE row \in qr.info : TRUE
            userResults == Ascending({ToInt(qr.ids[i]) : i \in DOMAIN qr.ids} \cap Users)
            addedUsers == [i \in DOMAIN userResults |->
                              [userId |-> Num(userResults[i]),
                               userName |-> NameOf(userResults[i])]]
            online == SelectSeq(addedUsers,
                                LAMBDA a : findSocketIdByUserId(a.userId) # NoSocket)
            joined == [c \in Conns |->
                          IF c \in {findSocketIdByUserId(addedUsers[i].userId) :
                                        i \in DOMAIN addedUsers} \cap Connected
                          THEN rooms[c] \cup {qr.g} ELSE rooms[c]]
        IN  /\ faults' = IF fault THEN faults + 1 ELSE faults
            /\ resp' = Reply(qr, IF fault THEN "OTHER" ELSE "none", 0)
            /\ queue' = Tail(queue)
            /\ IF fault
               THEN /\ UNCHANGED rooms
                    /\ emitted' = <<>>
               ELSE /\ rooms' = joined
                    /\ emitted' =
                          [i \in DOMAIN online |->
                              [ev |-> "group-created",
                               to |-> IoToSocket(findSocketIdByUserId(online[i].userId)),
                               success |-> TRUE,
                               group |-> [id |-> groupInfo.id, groupId |-> qr.g,
                                          name |-> groupInfo.name,
                                          creatorId |-> qr.ud.userId]]] \o
                          <<[ev |-> "members-added", to |-> IoToRoom(joined, qr.g),
                             groupId |-> qr.g, addedUsers |-> addedUsers]>> \o
                          [i \in DOMAIN addedUsers |->
                              SystemMessage(joined, qr.g, "added", addedUsers[i].userName,
                                            qr.ud.userName)]
            /\ UNCHANGED <<sockets, connectedUsers, storeVars, now, budget, crashed>>

---------------------------------------------------------------------------
(* Group messaging: one persisted group with members 1, 2, 3, on either     *)
(* version of the schema                                                    *)

G0 == GroupIdAt(0)

TeamRow == [id |-> 1, name |-> "Team", creator_id |-> 1, group_id |-> G0]

InitBase ==
    /\ sockets = [c \in Conns |-> "new"]
    /\ connectedUsers = <<>>
    /\ rooms = [c \in Conns |-> {}]
    /\ messages = {}
    /\ nextMsgId = 1
    /\ nextGroupRowId = 2
    /\ queue = <<>>
    /\ now = 1
    /\ emitted = <<>>
    /\ resp = NoResp
    /\ budget = MaxEvents
    /\ faults = 0
    /\ crashed = FALSE

InitGM ==
    /\ InitBase
    /\ hasIsGroup \in BOOLEAN
    /\ chat_groups = {TeamRow}
    /\ group_members = SetToBag({MemberRow(G0, u) : u \in Users})

ConnsGM == {"s1", "s2"}

NextGM ==
    \/ \E c \in ConnsGM : Connect(c)
    \/ \E c \in ConnsGM : Disconnect(c)
    \/ \E c \in ConnsGM, u \in Users : UserConnected(c, Num(u), NameOf(u))
    \/ \E c \in ConnsGM : GroupMessage(c, G0, "hi")
    \/ DbSelectUsers
    \/ DbSelectUserGroups
    \/ DbInsertGroupMessage
    \/ DbInsertGroupMessageFallback

SpecGM == InitGM /\ [][NextGM]_vars

---------------------------------------------------------------------------
(* Claims on group messages *)

GmInserts == {"insertGroupMessage", "insertGroupMessageFallback"}

\* the last step was the callback of a group-message insert that succeeded
GmPersisted == resp.q.q \in GmInserts /\ resp.err = "none"

\* the user-generated group-message notifications of the last step
GmNotes == {i \in DOMAIN emitted : emitted[i].ev = "group-message" /\ ~emitted[i].isSystem}

\* the live connections the adapter holds in room g
Joined(g) == {c \in Conns : sockets[c] = "open" /\ g \in rooms[c]}

\* the connections registered to user u
ConnsOf(u) ==
    {connectedUsers[i].socketId :
        i \in {j \in DOMAIN connectedUsers : ToInt(connectedUsers[j].userId) = u}}

(* C1: when the store has answered a group-message insert for group G with
   success, a row with room_id = G holds the message, and exactly one broadcast
   went out, to exactly the live connections joined to G's room at that moment
   (the sender's too when it is one of them); a persisted member of G none of
   whose connections is joined receives nothing. *)
C1_GroupMessageDelivery ==
    GmPersisted =>
        /\ \E row \in messages :
              /\ row.id = resp.insertId
              /\ row.room_id = resp.q.g
              /\ row.content = resp.q.m
        /\ Len(emitted) = 1
        /\ GmNotes = {1}
        /\ emitted[1].groupId = resp.q.g
        /\ emitted[1].message = resp.q.m
        /\ emitted[1].to = Joined(resp.q.g)
        /\ resp.q.sock \in Joined(resp.q.g) => resp.q.sock \in emitted[1].to
        /\ \A u \in MembersOf(resp.q.g) :
              ConnsOf(u) \cap Joined(resp.q.g) = {} => ConnsOf(u) \cap emitted[1].to = {}

\* members 1 and 2 are online and joined and receive the broadcast, the sender
\* among them; member 3 has no connection
C1_Witness ==
    /\ GmPersisted
    /\ Len(emitted) = 1
    /\ Cardinality(emitted[1].to) = 2
    /\ resp.q.sock \in emitted[1].to
    /\ ConnsOf(1) # {} /\ ConnsOf(2) # {} /\ ConnsOf(3) = {}
    /\ 3 \in MembersOf(G0)
    /\ ConnsOf(1) \cup ConnsOf(2) = emitted[1].to

(* C2: a user-generated group-message notification carrying messageId m is
   emitted only by the callback of an insert that succeeded with id m, and then
   the row m has the userId the sending connection was registered with as its
   author and the target groupId as its room; a failed insert emits none. *)
C2_PersistBeforeBroadcast ==
    \A i \in GmNotes :
        /\ GmPersisted
        /\ emitted[i].messageId = resp.insertId
        /\ resp.q.ud.socketId = resp.q.sock
        /\ emitted[i].fromUserId = resp.q.ud.userId
        /\ emitted[i].groupId = resp.q.g
        /\ \E row \in messages :
              /\ row.id = emitted[i].messageId
              /\ row.user_id = ToInt(resp.q.ud.userId)
              /\ row.room_id = emitted[i].groupId

\* the second message of a run is broadcast with the id of its own row
C2_Witness ==
    /\ GmNotes # {}
    /\ emitted[1].messageId = 2
    /\ emitted[1].to # {}
    /\ Cardinality(messages) = 2

(* C3: when the insert with is_group fails with ER_BAD_FIELD_ERROR naming
   is_group, nothing is emitted or stored by that callback and the same message
   is issued once more in the reduced form; when the reduced insert succeeds,
   exactly one row is added, it holds that message, and the group gets exactly
   one broadcast, carrying the id the reduced insert assigned; no further query
   follows. *)
C3_SchemaFallback ==
    [][ /\ (resp'.q.q = "insertGroupMessage" /\ resp'.err = "ER_BAD_FIELD_ERROR") =>
            /\ emitted' = <<>>
            /\ messages' = messages
            /\ queue' = Append(Tail(queue),
                               [Head(queue) EXCEPT !.q = "insertGroupMessageFallback"])
        /\ (resp'.q.q = "insertGroupMessageFallback" /\ resp'.err = "none") =>
            /\ resp'.q = Head(queue)
            /\ queue' = Tail(queue)
            /\ \E row \in messages' \ messages :
                  /\ messages' = messages \cup {row}
                  /\ row.id = resp'.insertId
                  /\ row.user_id = ToInt(resp'.q.ud.userId)
                  /\ row.content = resp'.q.m
                  /\ row.room_id = resp'.q.g
            /\ Len(emitted') = 1
            /\ emitted'[1].ev = "group-message"
            /\ emitted'[1].messageId = resp'.insertId
            /\ emitted'[1].groupId = resp'.q.g
            /\ emitted'[1].message = resp'.q.m
            /\ emitted'[1].to = {c \in Conns : sockets'[c] = "open" /\ resp'.q.g \in rooms'[c]}
      ]_vars

\* on the legacy schema a message went through the reduced form and reached
\* two connections
C3_Witness ==
    /\ ~hasIsGroup
    /\ resp.q.q = "insertGroupMessageFallback"
    /\ resp.err = "none"
    /\ Len(emitted) = 1
    /\ Cardinality(emitted[1].to) = 2
    /\ \E row \in messages : row.id = resp.insertId /\ row.is_group = "absent"

(* C4: when the insert with is_group fails with another error than the
   missing column, or the reduced insert fails, the callback issues no query,
   emits nothing to anyone (no broadcast, no acknowledgment to the sender) and
   no row is added. *)
C4_TerminalFailure ==
    [][ (\/ resp'.q.q = "insertGroupMessage" /\ resp'.err \notin {"none", "ER_BAD_FIELD_ERROR"}
         \/ resp'.q.q = "insertGroupMessageFallback" /\ resp'.err # "none") =>
            /\ resp'.q = Head(queue)
            /\ queue' = Tail(queue)
            /\ emitted' = <<>>
            /\ messages' = messages
            /\ nextMsgId' = nextMsgId
      ]_vars

\* the reduced insert failed while the sender was joined and online
C4_Witness ==
    /\ resp.q.q = "insertGroupMessageFallback"
    /\ resp.err # "none"
    /\ resp.q.sock \in Joined(resp.q.g)
    /\ messages = {}

---------------------------------------------------------------------------
(* Group creation: s1 and s2 are identified as users 1 and 2 and their      *)
(* queries have been answered; user 3 is offline; no group exists yet       *)

Entry(c, u) == [socketId |-> c, userId |-> Num(u), userName |-> NameOf(u), online |-> TRUE]

InitCreate ==
    /\ sockets = [c \in Conns |-> IF c = "s3" THEN "new" ELSE "open"]
    /\ connectedUsers = <<Entry("s1", 1), Entry("s2", 2)>>
    /\ rooms = [c \in Conns |-> {}]
    /\ chat_groups = {}
    /\ group_members = EmptyBag
    /\ messages = {}
    /\ nextMsgId = 1
    /\ nextGroupRowId = 1
    /\ hasIsGroup = TRUE
    /\ queue = <<>>
    /\ now = 1
    /\ emitted = <<>>
    /\ resp = NoResp
    /\ budget = MaxEvents - 1
    /\ faults = 0
    /\ crashed = FALSE

\* invite lists: with and without the creator, as numbers and as text, with a
\* repeated id, with the creator's id in the other representation
InviteLists ==
    {<<>>, <<Num(1), Num(2), Num(3)>>, <<Txt(2), Txt(3)>>, <<Txt(1), Num(3)>>, <<Num(3), Num(3)>>}

NextCreate ==
    \/ Connect("s3")
    \/ \E c \in {"s2", "s3"} : Disconnect(c)
    \/ Tick
    \/ \E id \in {Num(3), Txt(3)} : UserConnected("s3", id, NameOf(3))
    \/ \E ids \in InviteLists : CreateGroup("s1", "Team", ids)
    \/ DbSelectUsers
    \/ DbSelectUserGroups
    \/ DbInsertGroup
    \/ DbInsertGroupMembers

SpecCreate == InitCreate /\ [][NextCreate]_vars

---------------------------------------------------------------------------
(* Claims on group creation *)

\* the last step was the callback of create-group's membership insert, and the
\* insert succeeded: the group is created
CreateSucceeded == resp.q.q = "insertGroupMembers" /\ resp.err = "none"

\* the distinct users of the invite list, and the creator
Invited(qr) == {ToInt(qr.ids[i]) : i \in DOMAIN qr.ids} \cup {ToInt(qr.ud.userId)}

ListedGroups(u) == {r.groupId : r \in GroupsOfUser(u)}

\* every invite list of InviteLists names registered users only
ValidInvite(qr) == \A i \in DOMAIN qr.ids : ToInt(qr.ids[i]) \in Users

(* C5: when the member insert of a create-group with any invite list of
   registered users (with or without the creator, ids as numbers or as text,
   ids repeated or not) has been answered and no store call has failed, the new
   group has exactly one membership row for each distinct user of the invite
   list and for the creator, no other row, and the group listing of each of
   these users includes the new group. *)
C5_CreateGroupMemberships ==
    (resp.q.q = "insertGroupMembers" /\ ValidInvite(resp.q) /\ faults = 0) =>
        /\ \A row \in BagToSet(group_members) :
              row.group_id = resp.q.g =>
                  /\ row.user_id \in Invited(resp.q)
                  /\ CopiesIn(row, group_members) = 1
        /\ \A u \in Invited(resp.q) :
              /\ CopiesIn(MemberRow(resp.q.g, u), group_members) = 1
              /\ resp.q.g \in ListedGroups(u)

\* the part of C5 that the code keeps: the same, for the creations the store has
\* accepted (none of them has a repeated user in the list sent to the store)
C5_AfterSuccess ==
    CreateSucceeded =>
        /\ \A row \in BagToSet(group_members) :
              row.group_id = resp.q.g =>
                  /\ row.user_id \in Invited(resp.q)
                  /\ CopiesIn(row, group_members) = 1
        /\ \A u \in Invited(resp.q) :
              /\ CopiesIn(MemberRow(resp.q.g, u), group_members) = 1
              /\ resp.q.g \in ListedGroups(u)
        /\ Cardinality(Invited(resp.q)) = Len(resp.q.ids)

\* creator 1 (registered with a number) invited 2 and 3 as text, without itself
C5_AfterSuccessReached ==
    /\ CreateSucceeded
    /\ resp.q.ud.userId = Num(1)
    /\ resp.q.ids = <<Txt(2), Txt(3), Num(1)>>
    /\ MembersOf(resp.q.g) = {1, 2, 3}
    /\ \A u \in {1, 2, 3} : resp.q.g \in ListedGroups(u)

\* creator 1 named itself as text: the list sent to the store holds user 1 twice,
\* the insert is rejected as a whole and the group row is left without members
C5_RepeatedIdRejected ==
    /\ resp.q.q = "insertGroupMembers"
    /\ faults = 0
    /\ resp.q.ids = <<Txt(1), Num(3), Num(1)>>
    /\ resp.err = "ER_DUP_ENTRY"
    /\ Group(resp.q.g) # {}
    /\ MembersOf(resp.q.g) = {}

\* the sockets that received something in the last step
Recipients == UNION {emitted[k].to : k \in DOMAIN emitted}

(* C6: when create-group has succeeded, every invitee found in the registry
   has, on the connection the registry lookup returns, received a successful
   group-created for the new group, been joined to its room and received the
   creation system message; nobody but the creator's connection and connections
   registered to invitees receives anything.  Whenever a later identification's
   group query is answered, the group-list sent to the connection holds every
   group the user has a membership row in, and the connection is joined to each. *)
C6_CreateGroupNotifies ==
    /\ CreateSucceeded =>
          /\ \A i \in DOMAIN resp.q.ids :
                LET sid == findSocketIdByUserId(resp.q.ids[i])
                    last == emitted[Len(emitted)]
                IN  sid # NoSocket =>
                        /\ \E k \in DOMAIN emitted :
                              /\ emitted[k].ev = "group-created"
                              /\ emitted[k].success
                              /\ emitted[k].group.groupId = resp.q.g
                              /\ sid \in emitted[k].to
                        /\ resp.q.g \in rooms[sid]
                        /\ last.ev = "group-message" /\ last.isSystem
                        /\ last.groupId = resp.q.g
                        /\ sid \in last.to
          /\ Recipients \subseteq
                {resp.q.sock} \cup UNION {ConnsOf(u) : u \in Invited(resp.q)}
    /\ (resp.q.q = "selectUserGroups" /\ resp.err = "none") =>
          /\ Len(emitted) = 1
          /\ emitted[1].ev = "group-list"
          /\ sockets[resp.q.sock] = "open" => emitted[1].to = {resp.q.sock}
          /\ \A row \in chat_groups :
                CopiesIn(MemberRow(row.group_id, ToInt(resp.q.ud.userId)), group_members) > 0 =>
                    /\ row.group_id \in {r.groupId : r \in emitted[1].list}
                    /\ row.group_id \in rooms[resp.q.sock]

\* creator 1 invited 2 and 3; user 2 is online on s2, notified and joined; user 3
\* has no connection and nothing was sent beyond s1 and s2
C6_Witness ==
    /\ CreateSucceeded
    /\ Invited(resp.q) = {1, 2, 3}
    /\ ConnsOf(2) = {"s2"}
    /\ ConnsOf(3) = {}
    /\ resp.q.g \in rooms["s2"]
    /\ Recipients = {"s1", "s2"}
    /\ 3 \in MembersOf(resp.q.g)

\* user 3 identified after the creation: its group-list holds the new group
C6_LaterIdentification ==
    /\ resp.q.q = "selectUserGroups"
    /\ resp.err = "none"
    /\ resp.q.sock = "s3"
    /\ emitted[1].to = {"s3"}
    /\ emitted[1].list # {}
    /\ \A r \in emitted[1].list : r.groupId \in rooms["s3"] \cap rooms["s2"]

---------------------------------------------------------------------------
(* Group lifecycle: group G0 of creator 1 with members 1 and 2, both online  *)
(* on s1 and s2, identified and joined                                       *)

InitLife ==
    /\ sockets = [c \in Conns |-> IF c = "s3" THEN "new" ELSE "open"]
    /\ connectedUsers = <<Entry("s1", 1), Entry("s2", 2)>>
    /\ rooms = [c \in Conns |-> IF c = "s3" THEN {} ELSE {G0}]
    /\ chat_groups = {TeamRow}
    /\ group_members = SetToBag({MemberRow(G0, 1), MemberRow(G0, 2)})
    /\ messages = {}
    /\ nextMsgId = 1
    /\ nextGroupRowId = 2
    /\ hasIsGroup = TRUE
    /\ queue = <<>>
    /\ now = 1
    /\ emitted = <<>>
    /\ resp = NoResp
    /\ budget = MaxEvents
    /\ faults = 0
    /\ crashed = FALSE

\* lists of users to add: a member already there, a repeated new user, text
AddLists == {<<Num(2)>>, <<Num(3), Num(3)>>, <<Txt(2), Num(3)>>}

NextLife ==
    \/ \E c \in {"s1", "s2"} : LeaveGroup(c, G0)
    \/ \E u \in {1, 2} : RemoveGroupMember("s1", G0, Num(u))
    \/ \E ids \in AddLists : AddGroupMembers("s1", G0, ids)
    \/ DbLeaveDelete
    \/ DbLeaveCount
    \/ DbLeaveDeleteGroup
    \/ DbRemoveVerify
    \/ DbRemoveSelectUser
    \/ DbRemoveDelete
    \/ DbAddVerify
    \/ DbAddInsert
    \/ DbAddSelectUsers

SpecLife == InitLife /\ [][NextLife]_vars

---------------------------------------------------------------------------
(* Leaving: the same group, and nothing but leave-group events *)

NextLeave ==
    \/ \E c \in {"s1", "s2"} : LeaveGroup(c, G0)
    \/ Tick
    \/ DbLeaveDelete
    \/ DbLeaveCount
    \/ DbLeaveDeleteGroup

SpecLeave == InitLife /\ [][NextLeave]_vars

---------------------------------------------------------------------------
(* Claims on the group lifecycle *)

\* s1 (user 1) and s2 (user 2) have both left G0: socket.leave of line 438 runs
\* only in a leave-group whose DELETE was answered without error
BothLeft == G0 \notin rooms["s1"] /\ G0 \notin rooms["s2"]

(* C7: G0 has the members 1 and 2 only.  Once leave-group of user 1 and
   leave-group of user 2 have both run to the end, in either order and with
   their store calls interleaved or not, each store call answered without
   error, no membership row of G0 remains and the row of G0 in chat_groups is
   deleted. *)
C7_TwoLeavesDeleteGroup ==
    (BothLeft /\ queue = <<>> /\ faults = 0) =>
        /\ MemberCount(G0) = 0
        /\ Group(G0) = {}

\* two leave events, each followed to the end
C7_Witness ==
    /\ BothLeft
    /\ queue = <<>>
    /\ faults = 0
    /\ budget = MaxEvents - 2
    /\ resp.q.q = "leaveDeleteGroup"
    /\ chat_groups = {}

\* the store calls of the two leaves interleave: the DELETE of the second is
\* queued behind the DELETE of the first, ahead of the first's COUNT
C7_Interleaved ==
    /\ Len(queue) = 2
    /\ queue[1].q = "leaveDelete"
    /\ queue[2].q = "leaveCount"
    /\ queue[1].sock # queue[2].sock
    /\ MembersOf(G0) = {ToInt(queue[1].ud.userId)}

(* C8: whenever every operation has run to the end without a store failure and
   a group has no membership row left, be it by leave-group or by
   remove-group-member, the row of the group in chat_groups is deleted. *)
C8_EmptyGroupDeleted ==
    (queue = <<>> /\ faults = 0 /\ MemberCount(G0) = 0) => Group(G0) = {}

\* the creator has removed the last member: the group row is still there
C8_RemoveKeepsGroup ==
    /\ resp.q.q = "removeDelete"
    /\ resp.err = "none"
    /\ queue = <<>>
    /\ faults = 0
    /\ MemberCount(G0) = 0
    /\ Group(G0) # {}

(* C9: in every state of the store, the group_id of each row of group_members
   is the group_id of a row of chat_groups. *)
C9_MembershipReferencesGroup ==
    \A row \in BagToSet(group_members) : Group(row.group_id) # {}

\* add-group-members was authorized before the leave of the last member deleted
\* the group, and its insert was run before the delete
C9_OrphanMembership ==
    /\ resp.q.q = "leaveDeleteGroup"
    /\ resp.err = "none"
    /\ faults = 0
    /\ Group(G0) = {}
    /\ MemberCount(G0) > 0

(* C10: group_members never holds two rows of one (group_id, user_id); and
   when the INSERT of add-group-members has been answered, the store itself not
   failing, it was answered without error and there is exactly one row for each
   pair it named, whether the pair had a row already or was named twice. *)
C10_MembershipInsertIdempotent ==
    /\ \A row \in BagToSet(group_members) : CopiesIn(row, group_members) = 1
    /\ (resp.q.q = "addInsert" /\ resp.err # "OTHER") =>
          /\ resp.err = "none"
          /\ \A i \in DOMAIN resp.q.ids :
                CopiesIn(MemberRow(resp.q.g, ToInt(resp.q.ids[i])), group_members) = 1

\* the first event of the run adds user 2, a member since the start
C10_Witness ==
    /\ budget = MaxEvents - 1
    /\ resp.q.q = "addInsert"
    /\ resp.err = "none"
    /\ resp.q.ids = <<Num(2)>>
    /\ CopiesIn(MemberRow(G0, 2), group_members) = 1

\* user 3, not a member, is named twice in one list
C10_NewPairTwice ==
    /\ budget = MaxEvents - 1
    /\ resp.q.q = "addInsert"
    /\ resp.err = "none"
    /\ resp.q.ids = <<Num(3), Num(3)>>
    /\ CopiesIn(MemberRow(G0, 3), group_members) = 1

---------------------------------------------------------------------------
(* Authorization: the same group; the creator on s1 and the member on s2 add *)
(* and remove, also on a group that does not exist and a user that does not  *)

\* a group_id no row of chat_groups has
G1 == GroupIdAt(1)

\* an id no row of users has
Stranger == 4

NextAuth ==
    \/ \E c \in {"s1", "s2"}, g \in {G0, G1} : AddGroupMembers(c, g, <<Num(3)>>)
    \/ \E c \in {"s1", "s2"}, g \in {G0, G1}, u \in {2, Stranger} :
          RemoveGroupMember(c, g, Num(u))
    \/ DbRemoveVerify
    \/ DbRemoveSelectUser
    \/ DbRemoveDelete
    \/ DbAddVerify
    \/ DbAddInsert
    \/ DbAddSelectUsers

SpecAuth == InitLife /\ [][NextAuth]_vars

---------------------------------------------------------------------------
(* Claims on authorization *)

\* chat_groups has a row of group g whose creator_id is the caller's user id
IsCreator(g, userId) ==
    \E row \in chat_groups : row.group_id = g /\ row.creator_id = ToInt(userId)

\* the step is the store's answer to the head query, of the given kind
Answered(kind) == queue # <<>> /\ Head(queue).q = kind /\ resp'.q = Head(queue)

\* the operation of the head query ends with this step, with no effect
AbortsSilently ==
    /\ queue' = Tail(queue)
    /\ emitted' = <<>>
    /\ rooms' = rooms
    /\ group_members' = group_members
    /\ chat_groups' = chat_groups
    /\ messages' = messages

(* C11: when the creator check of add-group-members is answered and the
   caller's registered user id is not the creator_id of the group, or no such
   group exists, the operation ends there: no membership row is inserted or
   changed, no socket joins a room, nothing is emitted to anyone and no further
   query is issued. *)
C11_AddUnauthorizedNoEffect ==
    [][(Answered("addVerify")
            /\ ~IsCreator(Head(queue).g, Head(queue).ud.userId))
        => AbortsSilently]_vars

\* member 2 asked to add user 3 to G0: answered, nothing follows, user 3 is no
\* member
C11_Witness ==
    /\ resp.q.q = "addVerify"
    /\ resp.err = "none"
    /\ resp.q.g = G0
    /\ resp.q.ud.userId = Num(2)
    /\ budget = MaxEvents - 1
    /\ queue = <<>>
    /\ emitted = <<>>
    /\ MembersOf(G0) = {1, 2}

\* the creator asked to add to a group that does not exist
C11_NoSuchGroup ==
    /\ resp.q.q = "addVerify"
    /\ resp.err = "none"
    /\ resp.q.g = G1
    /\ resp.q.ud.userId = Num(1)
    /\ queue = <<>>
    /\ emitted = <<>>

(* C12: when the creator check of remove-group-member is answered and the
   caller's registered user id is not the creator_id of the group, or no such
   group exists, and when the lookup of the target user is answered and no such
   user exists, the operation ends there: no membership row is deleted, no
   socket leaves a room, no member-removed and no system message is emitted and
   no further query is issued. *)
C12_RemoveUnauthorizedNoEffect ==
    [][/\ (Answered("removeVerify")
              /\ ~IsCreator(Head(queue).g, Head(queue).ud.userId))
          => AbortsSilently
       /\ (Answered("removeSelectUser")
              /\ ToInt(Head(queue).ids[1]) \notin Users)
          => AbortsSilently]_vars

\* member 2 asked to remove itself from G0: answered, nothing follows, the row
\* is still there
C12_Witness ==
    /\ resp.q.q = "removeVerify"
    /\ resp.err = "none"
    /\ resp.q.g = G0
    /\ resp.q.ud.userId = Num(2)
    /\ budget = MaxEvents - 1
    /\ queue = <<>>
    /\ emitted = <<>>
    /\ MembersOf(G0) = {1, 2}
    /\ G0 \in rooms["s2"]

\* the creator asked to remove a user that does not exist
C12_NoSuchUser ==
    /\ resp.q.q = "removeSelectUser"
    /\ resp.err = "none"
    /\ resp.q.ids = <<Num(Stranger)>>
    /\ queue = <<>>
    /\ emitted = <<>>

---------------------------------------------------------------------------
(* Removal: the same group; member 2 is online on s2, and on s3 as well or   *)
(* not; the creator removes member 2 and writes to the group                  *)

InitRemove ==
    /\ \E second \in BOOLEAN :
          /\ sockets = [c \in Conns |-> IF c = "s3" /\ ~second THEN "new" ELSE "open"]
          /\ connectedUsers = IF second
                              THEN <<Entry("s1", 1), Entry("s2", 2), Entry("s3", 2)>>
                              ELSE <<Entry("s1", 1), Entry("s2", 2)>>
          /\ rooms = [c \in Conns |-> IF c = "s3" /\ ~second THEN {} ELSE {G0}]
    /\ chat_groups = {TeamRow}
    /\ group_members = SetToBag({MemberRow(G0, 1), MemberRow(G0, 2)})
    /\ messages = {}
    /\ nextMsgId = 1
    /\ nextGroupRowId = 2
    /\ hasIsGroup \in BOOLEAN
    /\ queue = <<>>
    /\ now = 1
    /\ emitted = <<>>
    /\ resp = NoResp
    /\ budget = MaxEvents
    /\ faults = 0
    /\ crashed = FALSE

NextRemove ==
    \/ \E id \in {Num(2), Txt(2)} : RemoveGroupMember("s1", G0, id)
    \/ GroupMessage("s1", G0, "hi")
    \/ Disconnect("s2")
    \/ DbRemoveVerify
    \/ DbRemoveSelectUser
    \/ DbRemoveDelete
    \/ DbInsertGroupMessage
    \/ DbInsertGroupMessageFallback

SpecRemove == InitRemove /\ [][NextRemove]_vars

---------------------------------------------------------------------------
(* Claims on removal *)

\* the last step was the callback of the DELETE of remove-group-member, which
\* the store answered without error
RemoveSucceeded == resp.q.q = "removeDelete" /\ resp.err = "none"

\* the notifications of the last step, of the given event, that reach a
\* connection registered to user u
NotesTo(ev, u) ==
    {k \in DOMAIN emitted : emitted[k].ev = ev /\ emitted[k].to \cap ConnsOf(u) # {}}

\* what C13 asks of the state after the removal of user u from group g
CutOff(g, u) ==
    /\ CopiesIn(MemberRow(g, u), group_members) = 0
    /\ \A c \in ConnsOf(u) : g \notin rooms[c]
    /\ ConnsOf(u) # {} => Cardinality(NotesTo("member-removed", u)) = 1
    /\ NotesTo("group-message", u) = {}

(* C13: when remove-group-member of user U from group G has succeeded, the row
   (G, U) is gone, no connection registered to U is joined to G's room, U has
   been sent member-removed exactly once and has not been sent the system
   message of the removal, whatever the number of connections of U; and when
   another user's group message to G is persisted while U has no row in G, it
   reaches no connection of U. *)
C13_RemovedMemberCutOff ==
    /\ RemoveSucceeded => CutOff(resp.q.g, ToInt(resp.q.ids[1]))
    /\ (GmPersisted /\ CopiesIn(MemberRow(resp.q.g, 2), group_members) = 0
            /\ ToInt(resp.q.ud.userId) # 2)
        => \A k \in GmNotes : emitted[k].to \cap ConnsOf(2) = {}

\* the part of C13 that the code keeps: the same, in the runs where user 2 has
\* had no connection but s2
C13_SingleConnection ==
    sockets["s3"] = "new" =>
        /\ RemoveSucceeded => CutOff(resp.q.g, ToInt(resp.q.ids[1]))
        /\ (GmPersisted /\ CopiesIn(MemberRow(resp.q.g, 2), group_members) = 0
                /\ ToInt(resp.q.ud.userId) # 2)
            => \A k \in GmNotes : emitted[k].to \cap ConnsOf(2) = {}

\* user 2, on s2 only, was removed: s2 left the room and got one member-removed
C13_SingleConnectionReached ==
    /\ RemoveSucceeded
    /\ ConnsOf(2) = {"s2"}
    /\ G0 \notin rooms["s2"]
    /\ Cardinality(NotesTo("member-removed", 2)) = 1

\* user 2, on s2 and s3, was removed: s3 is still joined and got the room's
\* member-removed and the system message
C13_SecondConnectionStays ==
    /\ RemoveSucceeded
    /\ ConnsOf(2) = {"s2", "s3"}
    /\ G0 \notin rooms["s2"]
    /\ G0 \in rooms["s3"]
    /\ \E k \in NotesTo("group-message", 2) : emitted[k].isSystem /\ "s3" \in emitted[k].to

\* and a later group message of the creator reaches s3
C13_RemovedStillReceives ==
    /\ GmPersisted
    /\ resp.q.ud.userId = Num(1)
    /\ MembersOf(G0) = {1}
    /\ \E k \in GmNotes : "s3" \in emitted[k].to

---------------------------------------------------------------------------
(* Synchronization: the same group; user 3, no member, connects on s3 and    *)
(* writes to the group; s2 identifies again, as user 3; members leave        *)

NextSync ==
    \/ Connect("s3")
    \/ \E c \in {"s2", "s3"} : UserConnected(c, Num(3), NameOf(3))
    \/ GroupMessage("s3", G0, "hi")
    \/ \E c \in {"s1", "s2"} : LeaveGroup(c, G0)
    \/ DbSelectUsers
    \/ DbSelectUserGroups
    \/ DbInsertGroupMessage
    \/ DbLeaveDelete
    \/ DbLeaveCount
    \/ DbLeaveDeleteGroup

SpecSync == InitLife /\ [][NextSync]_vars

---------------------------------------------------------------------------
(* Claims on synchronization *)

\* the group ids the store or a room knows
KnownGroups == {row.group_id : row \in chat_groups} \cup UNION {rooms[c] : c \in Conns}

(* C14: whenever no store call is pending (and none has failed), each
   connection of the registry is joined to the room of a group exactly when the
   user it is registered to has a membership row in that group. *)
C14_RoomsMatchMemberships ==
    (queue = <<>> /\ faults = 0) =>
        \A i \in DOMAIN connectedUsers : \A g \in KnownGroups :
            g \in rooms[connectedUsers[i].socketId]
                <=> CopiesIn(MemberRow(g, ToInt(connectedUsers[i].userId)),
                             group_members) > 0

\* user 3 has no row in G0, wrote to G0 from s3 and is joined to its room
C14_NonMemberJoined ==
    /\ queue = <<>>
    /\ faults = 0
    /\ GmPersisted
    /\ ConnsOf(3) = {"s3"}
    /\ MembersOf(G0) = {1, 2}
    /\ G0 \in rooms["s3"]
    /\ \E k \in GmNotes : emitted[k].to = {"s1", "s2", "s3"}

\* s2, joined as member 2, identified again as user 3 and is still joined
C14_ReidentifiedStaysJoined ==
    /\ queue = <<>>
    /\ faults = 0
    /\ resp.q.q = "selectUserGroups"
    /\ budget = MaxEvents - 1
    /\ ConnsOf(3) = {"s2"}
    /\ MembersOf(G0) = {1, 2}
    /\ G0 \in rooms["s2"]

---------------------------------------------------------------------------
(* socket.on('private-message') and GET /api/messages/:userId/:otherUserId *)

\* Number(a), the conversion Math.min and Math.max apply to their arguments
ToNumber(a) == a.v

Min(x, y) == IF x <= y THEN x ELSE y

Max(x, y) == IF x >= y THEN x ELSE y

\* the decimal digits of a natural number, as a template literal prints it
RECURSIVE Decimal(_)
Decimal(n) ==
    IF n < 10 THEN <<n>> ELSE Decimal(n \div 10) \o <<n % 10>>

\* `private_${x}_${y}` as a string: a sequence of characters
RoomString(x, y) == <<"private_">> \o Decimal(x) \o <<"_">> \o Decimal(y)

\* line 205 without Math.min and Math.max: the ids in the order given
PrivateRoomId_AsGiven(fromUserId, toUserId) ==
    RoomString(ToNumber(fromUserId), ToNumber(toUserId))

\* line 205: the room id of private-message
PrivateRoomId(fromUserId, toUserId) ==
    RoomString(Min(ToNumber(fromUserId), ToNumber(toUserId)),
               Max(ToNumber(fromUserId), ToNumber(toUserId)))

\* a path parameter of the URL: the text of the id
UrlParam(a) == Txt(a.v)

\* line 741 without Math.min and Math.max
HistoryRoomId_AsGiven(userId, otherUserId) ==
    RoomString(ToInt(userId), ToInt(otherUserId))

\* lines 733-741: the room id of the history route, from its path parameters
HistoryRoomId(userId, otherUserId) ==
    RoomString(Min(ToInt(userId), ToInt(otherUserId)),
               Max(ToInt(userId), ToInt(otherUserId)))

\* messageId: null
NullId == 0

\* the payload of private-message
DmData(fromUserId, fromUserName, toUserId, message) ==
    [fromUserId |-> fromUserId, fromUserName |-> fromUserName,
     toUserId |-> toUserId, message |-> message]

\* the INSERT of private-message with what its callback closes over: socket,
\* data, recipientSocketId and roomId.  ud is the registry entry of the socket
\* when the event arrived; the handler does not read it.
DmQuery(c, ud, data, recipientSocketId, roomId) ==
    [q |-> "insertPrivateMessage", sock |-> c, ud |-> ud, g |-> NoGroup,
     m |-> data.message, data |-> data, rcpt |-> recipientSocketId, room |-> roomId]

PrivateMessage(c, data) ==
    LET recipientSocketId == findSocketIdByUserId(data.toUserId)
        roomId == PrivateRoomId(data.fromUserId, data.toUserId)
    IN  /\ sockets[c] = "open"
        /\ budget > 0
        /\ budget' = budget - 1
        /\ emitted' = <<>>
        /\ resp' = NoResp
        /\ queue' = Append(queue, DmQuery(c, MapGet(connectedUsers, c), data,
                                          recipientSocketId, roomId))
        /\ UNCHANGED <<sockets, connectedUsers, rooms, storeVars, now, faults, crashed>>

\* line 217 taken only when the insert succeeded
DmDeliverOn_Success(err, recipientSocketId) ==
    err = "none" /\ recipientSocketId # NoSocket

\* lines 211-217: the error is logged, then if (recipientSocketId)
DmDeliverOn(err, recipientSocketId) == recipientSocketId # NoSocket

\* line 232 with the id always read
AckMessageId_Always(err, insertId) == insertId

\* line 232: result ? result.insertId : null
AckMessageId(err, insertId) == IF err = "none" THEN insertId ELSE NullId

\* callback of the INSERT of private-message
DbInsertPrivateMessage ==
    /\ queue # <<>>
    /\ Head(queue).q = "insertPrivateMessage"
    /\ \E fault \in FaultChoice :
        LET qr == Head(queue)
            data == qr.data
            err == InsertMessageError(fault, FALSE, data.fromUserId)
        IN  /\ faults' = IF fault THEN faults + 1 ELSE faults
            /\ resp' = Reply(qr, err, IF err = "none" THEN nextMsgId ELSE 0)
            /\ IF err = "none"
               THEN /\ messages' = messages \cup
                                   {MessageRow(nextMsgId, data.fromUserId, data.message,
                                               qr.room, FALSE)}
                    /\ nextMsgId' = nextMsgId + 1
               ELSE UNCHANGED <<messages, nextMsgId>>
            /\ queue' = Tail(queue)
            /\ emitted' =
                  (IF DmDeliverOn(err, qr.rcpt)
                   THEN <<[ev |-> "private-message", to |-> IoToSocket(qr.rcpt),
                           fromUserId |-> data.fromUserId,
                           fromUserName |-> data.fromUserName,
                           message |-> data.message]>>
                   ELSE <<>>) \o
                  <<[ev |-> "message-sent", to |-> SocketEmit(qr.sock),
                     toUserId |-> data.toUserId, message |-> data.message,
                     messageId |-> AckMessageId(err, nextMsgId)]>>
            /\ UNCHANGED <<sockets, connectedUsers, rooms, chat_groups, group_members,
                           nextGroupRowId, hasIsGroup, now, budget, crashed>>

\* the SELECT of the history route with what its callback closes over
HistoryQuery(userId, otherUserId, roomId) ==
    [q |-> "selectMessages", sock |-> NoSocket, ud |-> NoUser, g |-> NoGroup, m |-> "",
     userId |-> userId, otherUserId |-> otherUserId, room |-> roomId]

\* app.get('/api/messages/:userId/:otherUserId'), parameters that parse
GetMessages(userId, otherUserId) ==
    /\ ~crashed
    /\ budget > 0
    /\ budget' = budget - 1
    /\ emitted' = <<>>
    /\ resp' = NoResp
    /\ queue' = Append(queue, HistoryQuery(userId, otherUserId,
                                           HistoryRoomId(userId, otherUserId)))
    /\ UNCHANGED <<sockets, connectedUsers, rooms, storeVars, now, faults, crashed>>

\* SELECT ... FROM messages m JOIN users u ... WHERE m.room_id = ?
MessagesOfRoom(roomId) ==
    {row \in messages : row.room_id = roomId /\ row.user_id \in Users}

\* callback of the SELECT of the history route: the response
DbSelectMessages ==
    /\ queue # <<>>
    /\ Head(queue).q = "selectMessages"
    /\ \E fault \in FaultChoice :
        LET qr == Head(queue)
        IN  /\ faults' = IF fault THEN faults + 1 ELSE faults
            /\ resp' = Reply(qr, IF fault THEN "OTHER" ELSE "none", 0)
            /\ queue' = Tail(queue)
            /\ emitted' = IF fault
                          THEN <<[ev |-> "http", to |-> {}, status |-> 500]>>
                          ELSE <<[ev |-> "http", to |-> {}, status |-> 200,
                                  messages |-> MessagesOfRoom(qr.room),
                                  roomId |-> qr.room, success |-> TRUE]>>
            /\ UNCHANGED <<sockets, connectedUsers, rooms, storeVars, now, budget, crashed>>

---------------------------------------------------------------------------
(* Direct messages: users 1 and 2 are online on s1 and s2, user 3 is not;   *)
(* s3 is a connection that does not identify                                 *)

InitDM ==
    /\ sockets = [c \in Conns |-> IF c = "s3" THEN "new" ELSE "open"]
    /\ connectedUsers = <<Entry("s1", 1), Entry("s2", 2)>>
    /\ rooms = [c \in Conns |-> {}]
    /\ chat_groups = {}
    /\ group_members = EmptyBag
    /\ messages = {}
    /\ nextMsgId = 1
    /\ nextGroupRowId = 1
    /\ hasIsGroup \in BOOLEAN
    /\ queue = <<>>
    /\ now = 1
    /\ emitted = <<>>
    /\ resp = NoResp
    /\ budget = MaxEvents
    /\ faults = 0
    /\ crashed = FALSE

\* what the clients send: from s1 as user 1 to user 2 (online) and to user 3
\* (offline) and to an id of no user, ids as numbers and as text; from s2 as user
\* 2 to user 1; from s1 as user 3; from s3
DmEvents ==
    {<<"s1", DmData(Num(1), "Ann", Num(2), "hi")>>,
     <<"s1", DmData(Txt(1), "Ann", Txt(2), "hi")>>,
     <<"s1", DmData(Num(1), "Ann", Num(3), "yo")>>,
     <<"s2", DmData(Num(2), "Bo", Txt(1), "hi")>>,
     <<"s1", DmData(Num(1), "Ann", Txt(12), "yo")>>,
     <<"s1", DmData(Num(3), "Cy", Num(2), "yo")>>,
     <<"s3", DmData(Num(1), "Ann", Num(2), "yo")>>}

HistoryPairs == {<<1, 2>>, <<2, 1>>, <<1, 3>>, <<12, 1>>}

NextDM ==
    \/ Connect("s3")
    \/ Disconnect("s2")
    \/ \E e \in DmEvents : PrivateMessage(e[1], e[2])
    \/ \E p \in HistoryPairs : GetMessages(UrlParam(Num(p[1])), UrlParam(Num(p[2])))
    \/ DbInsertPrivateMessage
    \/ DbSelectMessages

SpecDM == InitDM /\ [][NextDM]_vars

---------------------------------------------------------------------------
(* Claims on direct messages *)

\* the last step was the callback of the INSERT of a private-message
DmAnswered == resp.q.q = "insertPrivateMessage"

\* the notifications of the last step, of the given event
Notes(ev) == {k \in DOMAIN emitted : emitted[k].ev = ev}

(* C15: a private-message is emitted only by the callback of the INSERT of a
   private-message event, whatever the store answered: exactly once, to the
   connection the registry held for the recipient when the event arrived (and
   to nobody if that connection has closed since), when there was one; not at
   all when there was none.  Nothing of the callback reaches a connection other
   than that one and the sender's. *)
C15_DeliveryIndependentOfStore ==
    /\ DmAnswered =>
          /\ IF resp.q.rcpt # NoSocket
             THEN /\ Cardinality(Notes("private-message")) = 1
                  /\ \A k \in Notes("private-message") :
                        /\ emitted[k].to = {resp.q.rcpt} \cap Connected
                        /\ emitted[k].message = resp.q.data.message
             ELSE Notes("private-message") = {}
          /\ Recipients \subseteq {resp.q.rcpt, resp.q.sock}
    /\ ~DmAnswered => Notes("private-message") = {}

\* the store failed; user 2, online on s2, got the message all the same
C15_Witness ==
    /\ DmAnswered
    /\ resp.err = "OTHER"
    /\ resp.q.rcpt = "s2"
    /\ messages = {}
    /\ \E k \in Notes("private-message") : emitted[k].to = {"s2"}

\* the recipient, user 3, is not online: only the sender hears of the message
C15_RecipientOffline ==
    /\ DmAnswered
    /\ resp.err = "none"
    /\ ToInt(resp.q.data.toUserId) = 3
    /\ resp.q.rcpt = NoSocket
    /\ Recipients = {"s1"}

(* C16: the callback of the INSERT of a private-message event, and no other
   step, emits message-sent: exactly once, to the sending connection, with the
   id of the row the INSERT added when it succeeded and with null when it
   failed. *)
C16_OneAcknowledgment ==
    /\ DmAnswered =>
          /\ Cardinality(Notes("message-sent")) = 1
          /\ \A k \in Notes("message-sent") :
                /\ emitted[k].to = {resp.q.sock} \cap Connected
                /\ emitted[k].toUserId = resp.q.data.toUserId
                /\ IF resp.err = "none"
                   THEN \E row \in messages :
                          /\ row.id = emitted[k].messageId
                          /\ row.content = resp.q.data.message
                          /\ row.room_id = resp.q.room
                          /\ \A other \in messages : other.id = row.id => other = row
                   ELSE emitted[k].messageId = NullId
    /\ ~DmAnswered => Notes("message-sent") = {}

\* the store failed: the sender on s1 is told so, with a null id
C16_Witness ==
    /\ DmAnswered
    /\ resp.err = "OTHER"
    /\ resp.q.sock = "s1"
    /\ \E k \in Notes("message-sent") :
          emitted[k].to = {"s1"} /\ emitted[k].messageId = NullId

\* the second message of the run was stored as row 2 and acknowledged with 2
C16_SecondRowAcknowledged ==
    /\ DmAnswered
    /\ resp.err = "none"
    /\ \E k \in Notes("message-sent") : emitted[k].messageId = 2

(* C17: the room id private-message computes for (from, to) is the one it
   computes for (to, from), and the one the history route computes from the
   same two ids as path parameters, in either order; ids are numbers or their
   decimal text. *)
C17_RoomTokenSymmetric ==
    /\ DmAnswered =>
          LET from == resp.q.data.fromUserId
              to == resp.q.data.toUserId
          IN  /\ resp.q.room = PrivateRoomId(to, from)
              /\ resp.q.room = HistoryRoomId(UrlParam(from), UrlParam(to))
              /\ resp.q.room = HistoryRoomId(UrlParam(to), UrlParam(from))
    /\ resp.q.q = "selectMessages" =>
          /\ resp.q.room = HistoryRoomId(resp.q.otherUserId, resp.q.userId)
          /\ resp.q.room = PrivateRoomId(Num(ToInt(resp.q.userId)),
                                         Txt(ToInt(resp.q.otherUserId)))
          /\ resp.q.room = PrivateRoomId(Num(ToInt(resp.q.otherUserId)),
                                         Num(ToInt(resp.q.userId)))

\* from user 2 (a number) to user 1 (text): the smaller id comes first
C17_Witness ==
    /\ DmAnswered
    /\ resp.q.data.fromUserId = Num(2)
    /\ resp.q.data.toUserId = Txt(1)
    /\ resp.q.room = <<"private_", 1, "_", 2>>

\* an id of two digits
C17_TwoDigits ==
    /\ DmAnswered
    /\ resp.q.data.toUserId = Txt(12)
    /\ resp.q.room = <<"private_", 1, "_", 1, 2>>

(* C18: the row of a private-message the store accepted has room_id
   private_<min>_<max> of the two ids and is_group false (where the table has
   the column); the history route answers, for a pair in either order, with
   exactly the rows whose room_id is that of the pair. *)
C18_PersistedAndFetched ==
    /\ (DmAnswered /\ resp.err = "none") =>
          LET a == ToInt(resp.q.data.fromUserId)
              b == ToInt(resp.q.data.toUserId)
          IN  \E row \in messages :
                /\ row.id = resp.insertId
                /\ row.user_id = a
                /\ row.content = resp.q.data.message
                /\ row.room_id = RoomString(Min(a, b), Max(a, b))
                /\ row.is_group = IF hasIsGroup THEN "false" ELSE "absent"
    /\ (resp.q.q = "selectMessages" /\ resp.err = "none") =>
          LET a == ToInt(resp.q.userId)
              b == ToInt(resp.q.otherUserId)
          IN  /\ emitted[1].status = 200
              /\ emitted[1].messages =
                    {row \in messages : row.room_id = RoomString(Min(a, b), Max(a, b))}
              /\ emitted[1].messages = MessagesOfRoom(HistoryRoomId(Txt(b), Txt(a)))
              /\ emitted[1].messages =
                    {row \in messages : row.room_id = PrivateRoomId(Num(a), Num(b))}

\* user 1 wrote to user 2 and to user 3; the history of (2, 1) is the first row
C18_Witness ==
    /\ resp.q.q = "selectMessages"
    /\ resp.err = "none"
    /\ resp.q.userId = Txt(2)
    /\ resp.q.otherUserId = Txt(1)
    /\ Cardinality(messages) = 2
    /\ \E row \in messages : row.room_id = <<"private_", 1, "_", 3>>
    /\ \E row \in messages :
          /\ emitted[1].messages = {row}
          /\ row.user_id = 1
          /\ row.room_id = <<"private_", 1, "_", 2>>
          /\ row.is_group = "false"

(* C19: the row of a private-message the store accepted has as user_id the id
   the sending connection is registered with, and the private-message delivered
   names that id as fromUserId. *)
C19_AuthorIsSender ==
    (DmAnswered /\ resp.err = "none") =>
        /\ resp.q.ud # NoUser
        /\ \E row \in messages :
              row.id = resp.insertId /\ row.user_id = ToInt(resp.q.ud.userId)
        /\ \A k \in Notes("private-message") :
              LooseEq(emitted[k].fromUserId, resp.q.ud.userId)

\* s1, registered to user 1, stored a message under user 3 and delivered it to
\* user 2 as coming from user 3
C19_StoredUnderAnotherUser ==
    /\ DmAnswered
    /\ resp.err = "none"
    /\ resp.q.sock = "s1"
    /\ resp.q.ud.userId = Num(1)
    /\ \E row \in messages : row.id = resp.insertId /\ row.user_id = 3
    /\ \E k \in Notes("private-message") :
          emitted[k].to = {"s2"} /\ emitted[k].fromUserId = Num(3)

\* s3, registered to nobody, stored a message under user 1
C19_UnidentifiedSender ==
    /\ DmAnswered
    /\ resp.err = "none"
    /\ resp.q.sock = "s3"
    /\ ~MapHas(connectedUsers, "s3")
    /\ resp.q.ud = NoUser
    /\ \E row \in messages : row.id = resp.insertId /\ row.user_id = 1

---------------------------------------------------------------------------
(* Claims on failures *)

\* the step is a callback the store answered with a failure of its own
StoreFails == faults' = faults + 1

\* the process runs on and no connection, registry entry or room is touched
Survives ==
    /\ ~crashed'
    /\ sockets' = sockets
    /\ connectedUsers' = connectedUsers
    /\ rooms' = rooms

(* C20: a store call that fails, in whatever handler, leaves the process
   running, every connection open, and every registry entry and room
   membership as it was. *)
C20_FailuresAreNotFatal == [][StoreFails => Survives]_vars

\* the part of C20 that the code keeps: the same, for every store call that
\* has a callback
C20_CallbacksSurvive ==
    [][(StoreFails /\ resp'.q.q # "leaveDeleteGroup") => Survives]_vars

\* the DELETE of the emptied group failed: the process is gone, and with it the
\* connection of user 1, who had sent nothing but a leave that succeeded
C20_Crashed ==
    /\ crashed
    /\ resp.q.q = "leaveDeleteGroup"
    /\ resp.err = "OTHER"
    /\ sockets["s1"] = "closed"
    /\ sockets["s2"] = "closed"
    /\ connectedUsers = <<>>
    /\ Group(G0) # {}

---------------------------------------------------------------------------
(* Claims on the partial failure of a creation *)

\* the last step was the callback of the member INSERT of a create-group, which
\* the store rejected or failed
MembersInsertFailed == resp.q.q = "insertGroupMembers" /\ resp.err # "none"

(* C21: when the member INSERT of a create-group has failed, its group row,
   inserted before, is still in chat_groups with no membership row; no
   connection is joined to the room of the group; and the step emitted one
   notification only, group-created with success false and a generic error, to
   the caller. *)
C21_PartialCreateFailure ==
    MembersInsertFailed =>
        /\ \E row \in Group(resp.q.g) : row.id = resp.q.row
        /\ MemberCount(resp.q.g) = 0
        /\ \A c \in Conns : resp.q.g \notin rooms[c]
        /\ Len(emitted) = 1
        /\ emitted[1].ev = "group-created"
        /\ ~emitted[1].success
        /\ emitted[1].error = "Failed to add members"
        /\ emitted[1].to = {resp.q.sock}

\* the store failed the member INSERT of the creator's group
C21_Witness ==
    /\ MembersInsertFailed
    /\ resp.err = "OTHER"
    /\ resp.q.ids = <<Txt(2), Txt(3), Num(1)>>
    /\ Cardinality(Group(resp.q.g)) = 1
    /\ MembersOf(resp.q.g) = {}
    /\ emitted[1].to = {"s1"}

---------------------------------------------------------------------------
(* socket.on('typing') *)

\* the payload of typing
TypingData(toUserId, userId, userName, isTyping) ==
    [toUserId |-> toUserId, userId |-> userId, userName |-> userName,
     isTyping |-> isTyping]

\* line 242 always taken, to every connection when there is no recipient
TypingTo_Everyone(recipientSocketId) ==
    IF recipientSocketId # NoSocket THEN IoToSocket(recipientSocketId) ELSE IoEmit

\* lines 242-243: if (recipientSocketId) io.to(recipientSocketId)
TypingTo(recipientSocketId) ==
    IF recipientSocketId # NoSocket THEN IoToSocket(recipientSocketId) ELSE {}

Typing(c, data) ==
    LET recipientSocketId == findSocketIdByUserId(data.toUserId)
    IN  /\ sockets[c] = "open"
        /\ budget > 0
        /\ budget' = budget - 1
        /\ resp' = NoResp
        /\ emitted' = IF TypingTo(recipientSocketId) = {} THEN <<>>
                      ELSE <<[ev |-> "typing", to |-> TypingTo(recipientSocketId),
                              userId |-> data.userId, userName |-> data.userName,
                              isTyping |-> data.isTyping]>>
        /\ UNCHANGED <<sockets, connectedUsers, rooms, storeVars, queue, now, faults,
                       crashed>>

---------------------------------------------------------------------------
(* Presence: group G0 of members 1 and 2; user 1 is online on s1; s2 and s3  *)
(* connect, identify as user 2 (a number or text) or as user 3, identify      *)
(* again, and disconnect; user 1 types to user 2                              *)

InitPresence ==
    /\ sockets = [c \in Conns |-> IF c = "s1" THEN "open" ELSE "new"]
    /\ connectedUsers = <<Entry("s1", 1)>>
    /\ rooms = [c \in Conns |-> IF c = "s1" THEN {G0} ELSE {}]
    /\ chat_groups = {TeamRow}
    /\ group_members = SetToBag({MemberRow(G0, 1), MemberRow(G0, 2)})
    /\ messages = {}
    /\ nextMsgId = 1
    /\ nextGroupRowId = 2
    /\ hasIsGroup = TRUE
    /\ queue = <<>>
    /\ now = 1
    /\ emitted = <<>>
    /\ resp = NoResp
    /\ budget = MaxEvents
    /\ faults = 0
    /\ crashed = FALSE

PresenceIds == {Num(2), Txt(2), Num(3)}

\* user 1 types to user 2, named by number or by text
TypingEvents == {TypingData(to, Num(1), "Ann", TRUE) : to \in {Num(2), Txt(2)}}

NextPresence ==
    \/ \E c \in {"s2", "s3"} : Connect(c)
    \/ \E c \in {"s2", "s3"} : Disconnect(c)
    \/ \E c \in {"s2", "s3"}, id \in PresenceIds : UserConnected(c, id, NameOf(ToInt(id)))
    \/ \E data \in TypingEvents : Typing("s1", data)
    \/ DbSelectUsers
    \/ DbSelectUserGroups

SpecPresence == InitPresence /\ [][NextPresence]_vars

---------------------------------------------------------------------------
(* The registry under identify and disconnect *)

EntriesOf(m, c) == {i \in DOMAIN m : m[i].socketId = c}

\* the step is the handling of a user-connected event of connection c: its two
\* SELECTs are the last of the queue
Identifies(c) ==
    /\ Len(queue') = Len(queue) + 2
    /\ queue'[Len(queue')].q = "selectUserGroups"
    /\ queue'[Len(queue')].sock = c

\* what the identify event of this step sent
Sent == queue'[Len(queue')].ud

\* the step is the handling of the disconnect of connection c
Closes(c) == sockets[c] = "open" /\ sockets'[c] = "closed"

\* C22: the registry holds at most one entry per connection; an identify event
\* of connection c leaves c with one entry, the (userId, userName) it sent with
\* online = true, at the place the connection already had if it had one; an
\* identify equal to the entry in place leaves the registry as it was; the
\* entries of the other connections are the same before and after
C22_RegisterOverwrites ==
    [][/\ \A d \in Conns : Cardinality(EntriesOf(connectedUsers', d)) <= 1
       /\ \A c \in Conns : Identifies(c) =>
            /\ Cardinality(EntriesOf(connectedUsers', c)) = 1
            /\ MapGet(connectedUsers', c) =
                   [socketId |-> c, userId |-> Sent.userId,
                    userName |-> Sent.userName, online |-> TRUE]
            /\ \A d \in Conns \ {c} :
                   /\ EntriesOf(connectedUsers', d) = EntriesOf(connectedUsers, d)
                   /\ MapGet(connectedUsers', d) = MapGet(connectedUsers, d)
            /\ MapHas(connectedUsers, c) => Len(connectedUsers') = Len(connectedUsers)
            /\ MapGet(connectedUsers, c) = MapGet(connectedUsers', c)
                   => connectedUsers' = connectedUsers]_vars

\* connection s3 identified as user 2, then s2 did, then s3 identified as user 3:
\* s3 has the one entry of user 3, before that of s2
C22_Witness ==
    /\ Len(queue) = 6
    /\ queue[2].sock = "s3" /\ queue[2].ud.userId = Num(2)
    /\ queue[4].sock = "s2"
    /\ queue[6].sock = "s3" /\ queue[6].ud.userId = Num(3)
    /\ connectedUsers = <<Entry("s1", 1), Entry("s3", 3), Entry("s2", 2)>>

\* the registry changes in no step other than an identify and a disconnect
C22_OnlyIdentifyAndDisconnect ==
    [][connectedUsers' # connectedUsers =>
           \E c \in Conns : Identifies(c) \/ Closes(c)]_vars

\* C23: the disconnect of connection c leaves no entry of c and every other
\* entry as it was, in the same order; a connection with no entry leaves the
\* registry unchanged and nothing is emitted; after the step no lookup by user
\* id returns c, nor does one return any closed connection
C23_DisconnectDeletesEntry ==
    [][\A c \in Conns : Closes(c) =>
            /\ ~MapHas(connectedUsers', c)
            /\ \A d \in Conns \ {c} : MapGet(connectedUsers', d) = MapGet(connectedUsers, d)
            /\ Len(connectedUsers') =
                   Len(connectedUsers) - (IF MapHas(connectedUsers, c) THEN 1 ELSE 0)
            /\ \A i, j \in DOMAIN connectedUsers' :
                   i < j => \E k, l \in DOMAIN connectedUsers :
                                /\ k < l
                                /\ connectedUsers[k] = connectedUsers'[i]
                                /\ connectedUsers[l] = connectedUsers'[j]
            /\ ~MapHas(connectedUsers, c) =>
                   connectedUsers' = connectedUsers /\ emitted' = <<>>
            /\ \A u \in Users :
                   /\ findSocketIdByUserId(Num(u))' # c
                   /\ findSocketIdByUserId(Txt(u))' # c
            /\ \A d \in Conns : sockets'[d] # "open" => ~MapHas(connectedUsers', d)]_vars

\* s2 and s3 were both identified as user 2 and s2 has disconnected: the entry
\* of s3 is the one found for user 2
C23_Witness ==
    /\ sockets["s2"] = "closed"
    /\ sockets["s3"] = "open"
    /\ connectedUsers = <<Entry("s1", 1), Entry("s3", 2)>>
    /\ Len(emitted) = 2
    /\ emitted[2].ev = "user-list"
    /\ emitted[2].list = connectedUsers
    /\ findSocketIdByUserId(Txt(2)) = "s3"

\* a connection that never identified disconnects: nothing changes and nothing
\* is emitted
C23_NeverIdentified ==
    /\ sockets["s2"] = "closed"
    /\ budget = MaxEvents
    /\ connectedUsers = <<Entry("s1", 1)>>
    /\ emitted = <<>>

\* C30: a notification that a user went offline is emitted only when no
\* registry entry of that user remains
C30_OfflineOnlyWithoutEntry ==
    \A i \in DOMAIN emitted :
        (emitted[i].ev = "user-status-change" /\ ~emitted[i].online) =>
            findSocketIdByUserId(emitted[i].userId) = NoSocket

\* user 2 is identified on s2 and on s3; s2 disconnects and every connection
\* is told that user 2 is offline, while the registry holds the entry of s3
C30_OfflineWhileConnected ==
    /\ sockets["s2"] = "closed"
    /\ emitted # <<>>
    /\ emitted[1].ev = "user-status-change"
    /\ ~emitted[1].online
    /\ ToInt(emitted[1].userId) = 2
    /\ emitted[1].to = {"s1", "s3"}
    /\ findSocketIdByUserId(Num(2)) = "s3"

---------------------------------------------------------------------------
(* Typing *)

TypingRecipients == {Num(2), Txt(2)}

\* the connections that have a registry entry of user u
OnlineAs(u) == {connectedUsers[i].socketId :
                    i \in {j \in DOMAIN connectedUsers : ToInt(connectedUsers[j].userId) = u}}

\* C25: a typing event queues no store call and changes neither the registry,
\* the rooms nor the tables; when the recipient has a registry entry, one
\* typing notification with the payload's userId, userName and isTyping goes to
\* one connection of the recipient and to no other; when the recipient has
\* none, nothing is emitted
C25_TypingStateless ==
    [][\A to \in TypingRecipients :
           (\E data \in TypingEvents : data.toUserId = to /\ Typing("s1", data)) =>
               /\ queue' = queue
               /\ connectedUsers' = connectedUsers
               /\ rooms' = rooms
               /\ storeVars' = storeVars
               /\ IF OnlineAs(ToInt(to)) # {}
                  THEN /\ Len(emitted') = 1
                       /\ emitted'[1].ev = "typing"
                       /\ Cardinality(emitted'[1].to) = 1
                       /\ emitted'[1].to \subseteq OnlineAs(ToInt(to))
                       /\ emitted'[1].userId = Num(1)
                       /\ emitted'[1].userName = "Ann"
                       /\ emitted'[1].isTyping
                  ELSE emitted' = <<>>]_vars

\* user 1 typed to user 2, who is identified on s3 with the text "2"
C25_Witness ==
    /\ Len(emitted) = 1
    /\ emitted[1].ev = "typing"
    /\ emitted[1].to = {"s3"}
    /\ connectedUsers = <<Entry("s1", 1),
                          [socketId |-> "s3", userId |-> Txt(2), userName |-> NameOf(2),
                           online |-> TRUE]>>
    /\ queue = <<>>
    /\ rooms["s3"] = {G0}

\* user 1 typed three times to user 2, who never connected: nothing was emitted
C25_RecipientOffline ==
    /\ budget = 0
    /\ connectedUsers = <<Entry("s1", 1)>>
    /\ sockets["s2"] = "new" /\ sockets["s3"] = "new"
    /\ emitted = <<>>

---------------------------------------------------------------------------
(* Identification sync *)

\* the groups in which the user of entry ud has a membership row
GroupListOf(ud) ==
    {[groupId |-> row.group_id, name |-> row.name] :
        row \in {r \in chat_groups : ToInt(ud.userId) \in MembersOf(r.group_id)}}

\* C26: when the SELECT of the groups of an identify event succeeds, the
\* connection is joined to each group of the result and to nothing else new,
\* and one group-list equal to the result (empty for a user without groups)
\* is sent to it and to no other connection; when the SELECT fails the rooms are
\* unchanged and nothing is emitted; in both cases the registry is unchanged
C26_IdentificationSync ==
    [][Answered("selectUserGroups") =>
        LET qr == Head(queue)
            results == GroupListOf(qr.ud)
        IN  /\ connectedUsers' = connectedUsers
            /\ IF resp'.err = "none"
               THEN /\ rooms'[qr.sock] = rooms[qr.sock] \cup {r.groupId : r \in results}
                    /\ \A d \in Conns \ {qr.sock} : rooms'[d] = rooms[d]
                    /\ Len(emitted') = 1
                    /\ emitted'[1].ev = "group-list"
                    /\ emitted'[1].list = results
                    /\ emitted'[1].to = {qr.sock} \cap Connected
               ELSE /\ rooms' = rooms
                    /\ emitted' = <<>>]_vars

\* s2 identified as user 2 with the text "2": joined to G0 and sent the list
C26_Witness ==
    /\ resp.q.q = "selectUserGroups"
    /\ resp.err = "none"
    /\ resp.q.sock = "s2"
    /\ resp.q.ud.userId = Txt(2)
    /\ rooms["s2"] = {G0}
    /\ Len(emitted) = 1
    /\ emitted[1].list = {[groupId |-> G0, name |-> TeamRow.name]}
    /\ emitted[1].to = {"s2"}

\* s3 identified as user 3, who has no group: an empty list, no room
C26_EmptyList ==
    /\ resp.q.q = "selectUserGroups"
    /\ resp.err = "none"
    /\ resp.q.sock = "s3"
    /\ ToInt(resp.q.ud.userId) = 3
    /\ rooms["s3"] = {}
    /\ emitted[1].list = {}
    /\ emitted[1].to = {"s3"}

\* the SELECT of s2 failed: no room, no list, the entry of s2 in place
C26_QueryFailed ==
    /\ resp.q.q = "selectUserGroups"
    /\ resp.err # "none"
    /\ resp.q.sock = "s2"
    /\ rooms["s2"] = {}
    /\ emitted = <<>>
    /\ MapGet(connectedUsers, "s2") = Entry("s2", 2)

---------------------------------------------------------------------------
(* User ids as numbers and as text *)

\* the entries of user u, by value
EntriesOfUser(u) == {i \in DOMAIN connectedUsers : ToInt(connectedUsers[i].userId) = u}

\* the lookup by user id finds, for either representation of u, the earliest
\* entry of u, and nothing exactly when u has no entry
LookupByValue ==
    \A u \in Users : \A id \in {Num(u), Txt(u)} :
        IF EntriesOfUser(u) = {} THEN findSocketIdByUserId(id) = NoSocket
        ELSE \E i \in EntriesOfUser(u) :
                /\ \A j \in EntriesOfUser(u) : i <= j
                /\ findSocketIdByUserId(id) = connectedUsers[i].socketId

\* the user-list sent to an identifying connection flags as online the users
\* that have an entry, in either representation
OnlineFlagByValue ==
    (resp.q.q = "selectUsers" /\ resp.err = "none") =>
        \A u \in Users : emitted[1].list[u].online <=> EntriesOfUser(u) # {}

\* the member list of a create-group holds the creator once, whichever the
\* representation in which the invite list names the creator
CreatorOnceByValue ==
    \A i \in DOMAIN queue :
        queue[i].q = "insertGroup" =>
            Cardinality({j \in DOMAIN queue[i].ids :
                            ToInt(queue[i].ids[j]) = ToInt(queue[i].ud.userId)}) = 1

\* C24: every comparison of a user id with the registered ids is by numeric
\* value: the lookup of a recipient, the check for the creator in the invite
\* list, the online flags of the user list
C24_IdsCompareByValue == LookupByValue /\ OnlineFlagByValue /\ CreatorOnceByValue

\* the lookup and the online flags do compare by value
C24_LookupAndFlagsByValue == LookupByValue /\ OnlineFlagByValue

\* s3 identified with the text "3": the lookup with the number 3 finds it and
\* the user list flags user 3 as online
C24_TextFoundByNumber ==
    /\ resp.q.q = "selectUsers"
    /\ resp.err = "none"
    /\ MapGet(connectedUsers, "s3").userId = Txt(3)
    /\ findSocketIdByUserId(Num(3)) = "s3"
    /\ emitted[1].list[3].online

\* the creator, registered with the number 1, invites the text "1" and 3: the
\* member list holds user 1 twice
C24_CreatorAddedTwice ==
    /\ queue # <<>>
    /\ queue[1].q = "insertGroup"
    /\ queue[1].ud.userId = Num(1)
    /\ queue[1].ids = <<Txt(1), Num(3), Num(1)>>

---------------------------------------------------------------------------
(* Lazy re-join: s2 connects, identifies as user 2 (a member of G0) or as     *)
(* user 3 (no member), writes to G0, leaves G0, disconnects; the table may    *)
(* predate the is_group column                                                *)

InitRejoin ==
    /\ sockets = [c \in Conns |-> IF c = "s1" THEN "open" ELSE "new"]
    /\ connectedUsers = <<Entry("s1", 1)>>
    /\ rooms = [c \in Conns |-> IF c = "s1" THEN {G0} ELSE {}]
    /\ chat_groups = {TeamRow}
    /\ group_members = SetToBag({MemberRow(G0, 1), MemberRow(G0, 2)})
    /\ messages = {}
    /\ nextMsgId = 1
    /\ nextGroupRowId = 2
    /\ hasIsGroup \in BOOLEAN
    /\ queue = <<>>
    /\ now = 1
    /\ emitted = <<>>
    /\ resp = NoResp
    /\ budget = MaxEvents
    /\ faults = 0
    /\ crashed = FALSE

NextRejoin ==
    \/ Connect("s2")
    \/ Disconnect("s2")
    \/ \E u \in {2, 3} : UserConnected("s2", Num(u), NameOf(u))
    \/ GroupMessage("s2", G0, "hi")
    \/ LeaveGroup("s2", G0)
    \/ DbSelectUsers
    \/ DbSelectUserGroups
    \/ DbInsertGroupMessage
    \/ DbInsertGroupMessageFallback
    \/ DbLeaveDelete
    \/ DbLeaveCount

SpecRejoin == InitRejoin /\ [][NextRejoin]_vars

\* the step is the handling of a group-message of the identified connection c
\* for G0: its INSERT is the last of the queue
SendsToGroup(c) ==
    /\ Len(queue') = Len(queue) + 1
    /\ queue'[Len(queue')].q = "insertGroupMessage"
    /\ queue'[Len(queue')].sock = c
    /\ queue'[Len(queue')].g = G0

\* the sender of a persisted group message is among the receivers of its
\* broadcast
SenderReceives ==
    \E k \in GmNotes : /\ resp.q.sock \in emitted[k].to
                       /\ emitted[k].messageId = resp.insertId

\* C27 as stated: the sender always receives the broadcast of its own message
\* once it is persisted
C27_SenderAlwaysReceives ==
    (GmPersisted /\ sockets[resp.q.sock] = "open") => SenderReceives

\* C27: a group-message of an identified connection leaves the connection
\* joined to the group in the step that queues the insert, whether or not its
\* user has a membership row, and changes no row; the connection is taken out
\* of the room only by its disconnect or by the answer to a leave-group of its
\* own; a sender still open and joined when the store answers with success
\* receives the broadcast of its message
C27_LazyRejoin ==
    [][/\ \A c \in Conns : SendsToGroup(c) =>
            /\ G0 \in rooms'[c]
            /\ \A d \in Conns \ {c} : rooms'[d] = rooms[d]
            /\ rooms'[c] = rooms[c] \cup {G0}
            /\ storeVars' = storeVars
       /\ \A c \in Conns : (G0 \in rooms[c] /\ G0 \notin rooms'[c]) =>
            \/ Closes(c)
            \/ Answered("leaveDelete") /\ Head(queue).sock = c
       /\ (GmPersisted /\ sockets[resp.q.sock] = "open" /\ G0 \in rooms[resp.q.sock])' =>
            SenderReceives']_vars

\* s2 identified as user 2 and wrote to G0 before the store answered the SELECT
\* of its groups: it is joined, with the insert queued behind the SELECT
C27_Witness ==
    /\ Len(queue) = 3
    /\ queue[2].q = "selectUserGroups" /\ queue[2].sock = "s2"
    /\ queue[2].ud.userId = Num(2)
    /\ queue[3].q = "insertGroupMessage" /\ queue[3].sock = "s2"
    /\ rooms["s2"] = {G0}

\* s2 wrote as user 3, who has no membership row, and received its message
C27_NonMemberReceives ==
    /\ GmPersisted
    /\ resp.q.sock = "s2"
    /\ ToInt(resp.q.ud.userId) = 3
    /\ MembersOf(G0) = {1, 2}
    /\ SenderReceives

\* s2 sent leave-group and then a message: the leave was answered first, and
\* the message was persisted and broadcast without s2
C27_LeftBeforeAnswer ==
    /\ GmPersisted
    /\ resp.q.sock = "s2"
    /\ sockets["s2"] = "open"
    /\ G0 \notin rooms["s2"]
    /\ \E k \in GmNotes : emitted[k].to = {"s1"}

---------------------------------------------------------------------------
(* Concurrent creation: users 1 (s1) and 2 (s2) both create groups, in the    *)
(* same millisecond or not                                                    *)

RaceLists == {<<>>, <<Num(3)>>, <<Num(1), Num(2)>>}

NextRace ==
    \/ \E c \in {"s1", "s2"}, ids \in RaceLists :
           CreateGroup(c, IF c = "s1" THEN "Team" ELSE "Crew", ids)
    \/ Tick
    \/ DbInsertGroup
    \/ DbInsertGroupMembers

SpecRace == InitCreate /\ [][NextRace]_vars

\* C28: the table holds at most one row per groupId; a create whose groupId is
\* already that of a row fails: its caller alone gets the generic failure, no
\* row of chat_groups or group_members is written, no connection is joined,
\* and no insert of members is queued for it
C28_ConcurrentCreate ==
    [][/\ \A t \in 1..MaxClock : Cardinality({row \in chat_groups' :
                                                 row.group_id = GroupIdAt(t)}) <= 1
       /\ (Answered("insertGroup") /\ Group(Head(queue).g) # {}) =>
            /\ resp'.err # "none"
            /\ Len(emitted') = 1
            /\ emitted'[1].ev = "group-created"
            /\ ~emitted'[1].success
            /\ emitted'[1].error = "Failed to create group"
            /\ emitted'[1].to = {Head(queue).sock}
            /\ chat_groups' = chat_groups
            /\ group_members' = group_members
            /\ rooms' = rooms
            /\ queue' = Tail(queue)]_vars

\* user 1 and user 2 created in the same millisecond: the group is that of
\* user 1, and user 2 got the failure
C28_Witness ==
    /\ resp.q.q = "insertGroup"
    /\ resp.err = "ER_DUP_ENTRY"
    /\ resp.q.sock = "s2"
    /\ resp.q.g = GroupIdAt(1)
    /\ \A row \in Group(resp.q.g) : row.creator_id = 1 /\ row.name = "Team"
    /\ Cardinality(Group(resp.q.g)) = 1
    /\ emitted[1].to = {"s2"}
    /\ ~emitted[1].success

\* the group of user 1 then has the members user 1 invited, and user 2, who
\* lost, is in no room
C28_WinnerOnly ==
    /\ resp.q.q = "insertGroupMembers"
    /\ resp.err = "none"
    /\ resp.q.sock = "s1"
    /\ resp.q.ids = <<Num(3), Num(1)>>
    /\ budget = 0
    /\ now = 1
    /\ queue = <<>>
    /\ MembersOf(resp.q.g) = {1, 3}
    /\ rooms["s2"] = {}
    /\ Cardinality(chat_groups) = 1

---------------------------------------------------------------------------
(* Group history: app.get('/api/groups/:groupId/messages') and update_db.js *)

\* update_db.js: ALTER TABLE messages ADD COLUMN IF NOT EXISTS is_group BOOLEAN
\* DEFAULT FALSE, run on a connection of its own: the rows already there take
\* the default. A run that fails, or that finds the column, changes nothing.
Migrate ==
    /\ ~hasIsGroup
    /\ hasIsGroup' = TRUE
    /\ messages' = {[row EXCEPT !.is_group = "false"] : row \in messages}
    /\ emitted' = <<>>
    /\ resp' = NoResp
    /\ UNCHANGED <<sockets, connectedUsers, rooms, chat_groups, group_members, nextMsgId,
                   nextGroupRowId, queue, now, budget, faults, crashed>>

GetGroupMessages(groupId) ==
    /\ ~crashed
    /\ budget > 0
    /\ budget' = budget - 1
    /\ emitted' = <<>>
    /\ resp' = NoResp
    /\ queue' = Append(queue, Query("selectGroupMessages", NoSocket, NoUser, groupId, ""))
    /\ UNCHANGED <<sockets, connectedUsers, rooms, storeVars, now, faults, crashed>>

\* SELECT ... FROM messages m JOIN users u ... WHERE m.room_id = ? AND m.is_group = true
GroupMessagesOfRoom(groupId) ==
    {row \in messages : /\ row.room_id = groupId
                        /\ row.is_group = "true"
                        /\ row.user_id \in Users}

\* the error of the SELECT that names is_group, if any
SelectGroupMessagesError(fault) ==
    IF fault THEN "OTHER"
    ELSE IF ~hasIsGroup THEN "ER_BAD_FIELD_ERROR"
    ELSE "none"

\* callback of the SELECT with is_group
DbSelectGroupMessages ==
    /\ queue # <<>>
    /\ Head(queue).q = "selectGroupMessages"
    /\ \E fault \in FaultChoice :
        LET qr == Head(queue)
            err == SelectGroupMessagesError(fault)
        IN  /\ faults' = IF fault THEN faults + 1 ELSE faults
            /\ resp' = Reply(qr, err, 0)
            /\ queue' = IF err = "ER_BAD_FIELD_ERROR"
                        THEN Append(Tail(queue), [qr EXCEPT !.q = "selectGroupMessagesFallback"])
                        ELSE Tail(queue)
            /\ emitted' = IF err = "ER_BAD_FIELD_ERROR" THEN <<>>
                          ELSE IF err # "none"
                          THEN <<[ev |-> "http", to |-> {}, status |-> 500]>>
                          ELSE <<[ev |-> "http", to |-> {}, status |-> 200,
                                  messages |-> GroupMessagesOfRoom(qr.g)]>>
            /\ UNCHANGED <<sockets, connectedUsers, rooms, storeVars, now, budget, crashed>>

\* callback of the SELECT without is_group
DbSelectGroupMessagesFallback ==
    /\ queue # <<>>
    /\ Head(queue).q = "selectGroupMessagesFallback"
    /\ \E fault \in FaultChoice :
        LET qr == Head(queue)
        IN  /\ faults' = IF fault THEN faults + 1 ELSE faults
            /\ resp' = Reply(qr, IF fault THEN "OTHER" ELSE "none", 0)
            /\ queue' = Tail(queue)
            /\ emitted' = IF fault
                          THEN <<[ev |-> "http", to |-> {}, status |-> 500]>>
                          ELSE <<[ev |-> "http", to |-> {}, status |-> 200,
                                  messages |-> MessagesOfRoom(qr.g)]>>
            /\ UNCHANGED <<sockets, connectedUsers, rooms, storeVars, now, budget, crashed>>

---------------------------------------------------------------------------
(* History: users 1 and 2 write to G0 and its history is fetched; the table   *)
(* may predate the is_group column, and update_db.js may be run at any time   *)

InitHistory ==
    /\ sockets = [c \in Conns |-> IF c = "s3" THEN "new" ELSE "open"]
    /\ connectedUsers = <<Entry("s1", 1), Entry("s2", 2)>>
    /\ rooms = [c \in Conns |-> IF c = "s3" THEN {} ELSE {G0}]
    /\ chat_groups = {TeamRow}
    /\ group_members = SetToBag({MemberRow(G0, 1), MemberRow(G0, 2)})
    /\ messages = {}
    /\ nextMsgId = 1
    /\ nextGroupRowId = 2
    /\ hasIsGroup \in BOOLEAN
    /\ queue = <<>>
    /\ now = 1
    /\ emitted = <<>>
    /\ resp = NoResp
    /\ budget = MaxEvents
    /\ faults = 0
    /\ crashed = FALSE

NextHistory ==
    \/ \E c \in {"s1", "s2"} : GroupMessage(c, G0, "hi")
    \/ GetGroupMessages(G0)
    \/ Migrate
    \/ DbInsertGroupMessage
    \/ DbInsertGroupMessageFallback
    \/ DbSelectGroupMessages
    \/ DbSelectGroupMessagesFallback

SpecHistory == InitHistory /\ [][NextHistory]_vars

\* the last step answered a fetch of the history of a group with status 200
HistoryFetched ==
    /\ resp.q.q \in {"selectGroupMessages", "selectGroupMessagesFallback"}
    /\ emitted # <<>>
    /\ emitted[1].status = 200

Ids(rows) == {row.id : row \in rows}

\* the rows of the messages persisted for group g
PersistedFor(g) == {row \in messages : row.room_id = g}

\* C29: a fetch of the history of group G returns every message persisted for
\* G, whichever form of the INSERT stored it
C29_HistoryComplete ==
    HistoryFetched => Ids(PersistedFor(resp.q.g)) \subseteq Ids(emitted[1].messages)

\* a message was stored without the column, update_db.js then added it, and
\* the fetch, which now filters on is_group = true, answers with no message
C29_LostAfterMigration ==
    /\ HistoryFetched
    /\ resp.q.q = "selectGroupMessages"
    /\ hasIsGroup
    /\ \E row \in PersistedFor(G0) : row.is_group = "false"
    /\ emitted[1].messages = {}

\* a fetch is complete when every row of the group was stored with the column
\* or the table has none
C29_CompleteWithoutMigration ==
    (HistoryFetched /\ \A row \in PersistedFor(resp.q.g) : row.is_group # "false")
        => Ids(PersistedFor(resp.q.g)) \subseteq Ids(emitted[1].messages)

\* on the table without the column the fetch falls back and returns the message
C29_LegacyFetched ==
    /\ HistoryFetched
    /\ resp.q.q = "selectGroupMessagesFallback"
    /\ ~hasIsGroup
    /\ Cardinality(emitted[1].messages) = 1
    /\ \A row \in emitted[1].messages : row.is_group = "absent"

---------------------------------------------------------------------------
(* Rooms and closed connections: group G0 of users 1 (s1) and 2 (s2); s3      *)
(* connects and identifies as user 3; user 1 adds user 3 to G0 and creates a  *)
(* group with users 2 and 3; any connection may disconnect at any time        *)

NextStale ==
    \/ Connect("s3")
    \/ \E c \in Conns : Disconnect(c)
    \/ UserConnected("s3", Num(3), NameOf(3))
    \/ AddGroupMembers("s1", G0, <<Num(3)>>)
    \/ CreateGroup("s1", "Crew", <<Num(2), Num(3)>>)
    \/ DbSelectUsers
    \/ DbSelectUserGroups
    \/ DbAddVerify
    \/ DbAddInsert
    \/ DbAddSelectUsers
    \/ DbInsertGroup
    \/ DbInsertGroupMembers

SpecStale == InitLife /\ [][NextStale]_vars

\* the connections the adapter holds in some room
InSomeRoom == {c \in Conns : rooms[c] # {}}

C31_JoinedAfterDisconnect ==
    /\ resp.q.q = "selectUserGroups"
    /\ resp.err = "none"
    /\ resp.q.sock = "s3"
    /\ sockets["s3"] = "closed"
    /\ ~MapHas(connectedUsers, "s3")
    /\ rooms["s3"] # {}

\* the creator disconnected before the store answered the INSERT of the
\* members: socket.join of line 295 joined its closed socket
C31_CreatorJoinedAfterDisconnect ==
    /\ resp.q.q = "insertGroupMembers"
    /\ resp.err = "none"
    /\ sockets["s1"] = "closed"
    /\ resp.q.g \in rooms["s1"]

\* the sockets other than the caller's that create-group and add-members join
\* are looked up when the store answers, and are open
C31_MembersJoinedLive ==
    [][(Answered("insertGroupMembers") \/ Answered("addSelectUsers")) =>
          \A c \in Conns \ {Head(queue).sock} :
              Head(queue).g \in rooms'[c] \ rooms[c] => sockets[c] = "open"]_vars

\* s3 was joined to G0 by add-members while connected
C31_AddedWhileConnected ==
    /\ resp.q.q = "addSelectUsers"
    /\ resp.err = "none"
    /\ sockets["s3"] = "open"
    /\ rooms["s3"] = {G0}
    /\ sockets["s2"] = "closed"

---------------------------------------------------------------------------
(* Delivery: user 1 writes to users 2 and 3 while s2 disconnects and s3       *)
(* connects and identifies as user 2 or as user 3                             *)

DeliverEvents == {DmData(Num(1), "Ann", Num(u), "hi") : u \in {2, 3}}

NextDeliver ==
    \/ Connect("s3")
    \/ \E c \in {"s2", "s3"} : Disconnect(c)
    \/ \E u \in {2, 3} : UserConnected("s3", Num(u), NameOf(u))
    \/ \E data \in DeliverEvents : PrivateMessage("s1", data)
    \/ DbSelectUsers
    \/ DbSelectUserGroups
    \/ DbInsertPrivateMessage

SpecDeliver == InitDM /\ [][NextDeliver]_vars

\* the connection the registry holds for the recipient of the answered insert
RecipientNow == findSocketIdByUserId(resp.q.data.toUserId)

\* no notification of the last step names a connection that is not open
NoneToClosed == \A k \in DOMAIN emitted : emitted[k].to \subseteq Connected

\* C32: when the store answers the INSERT of a private-message and the
\* recipient has a registry entry, the message is emitted to that connection;
\* it is emitted to no connection that has disconnected
C32_ResolvedAtDelivery ==
    /\ NoneToClosed
    /\ (DmAnswered /\ RecipientNow # NoSocket) =>
           \E k \in Notes("private-message") : emitted[k].to = {RecipientNow}

\* the part that holds: nothing is emitted to a closed connection
C32_NeverToClosed == NoneToClosed

\* the message had no recipient when it arrived; user 3 identified on s3 before
\* the store answered and was sent nothing
C32_IdentifiedMeanwhile ==
    /\ DmAnswered
    /\ resp.q.rcpt = NoSocket
    /\ ToInt(resp.q.data.toUserId) = 3
    /\ RecipientNow = "s3"
    /\ sockets["s3"] = "open"
    /\ Notes("private-message") = {}
    /\ Cardinality(Notes("message-sent")) = 1

\* user 2 was on s2 when the message arrived, then s2 closed and user 2
\* identified on s3: the emit to s2 reached nobody
C32_Reconnected ==
    /\ DmAnswered
    /\ resp.q.rcpt = "s2"
    /\ sockets["s2"] = "closed"
    /\ RecipientNow = "s3"
    /\ \A k \in Notes("private-message") : emitted[k].to = {}
    /\ Notes("private-message") # {}

\* a recipient that stays on its connection is sent the message
C32_SameConnection ==
    (DmAnswered /\ RecipientNow # NoSocket /\ RecipientNow = resp.q.rcpt) =>
        \E k \in Notes("private-message") : emitted[k].to = {RecipientNow}

---------------------------------------------------------------------------
(* socket.on('request-groups') and sendUserGroups *)

\* !userId of line 679: undefined, null, 0 and the empty string; the ids of the
\* model are numbers and their decimal text, of which 0 alone is falsy
Falsy(userId) == ~userId.txt /\ userId.v = 0

RequestGroups(c) ==
    LET userData == MapGet(connectedUsers, c)
    IN  /\ sockets[c] = "open"
        /\ budget > 0
        /\ budget' = budget - 1
        /\ emitted' = <<>>
        /\ resp' = NoResp
        /\ queue' = IF ~HasUserData(c) \/ Falsy(userData.userId) THEN queue
                    ELSE Append(queue, Query("selectGroupsOfUser", c, userData, NoGroup, ""))
        /\ UNCHANGED <<sockets, connectedUsers, rooms, storeVars, now, faults, crashed>>

\* SELECT g.group_id, g.name, g.creator_id, g.created_at, COUNT(gm.user_id) ...
\* WHERE g.group_id IN (SELECT group_id FROM group_members WHERE user_id = u)
\* GROUP BY g.group_id
GroupsWithCount(u) ==
    {[group_id |-> row.group_id, name |-> row.name, creator_id |-> row.creator_id,
      member_count |-> MemberCount(row.group_id)] :
        row \in {r \in chat_groups : CopiesIn(MemberRow(r.group_id, u), group_members) > 0}}

\* callback of the SELECT of sendUserGroups
DbSendUserGroups ==
    /\ queue # <<>>
    /\ Head(queue).q = "selectGroupsOfUser"
    /\ \E fault \in FaultChoice :
        LET qr == Head(queue)
        IN  /\ queue' = Tail(queue)
            /\ faults' = IF fault THEN faults + 1 ELSE faults
            /\ resp' = Reply(qr, IF fault THEN "OTHER" ELSE "none", 0)
            /\ emitted' = IF fault THEN <<>>
                          ELSE <<[ev |-> "group-list", to |-> SocketEmit(qr.sock),
                                  list |-> GroupsWithCount(ToInt(qr.ud.userId))]>>
            /\ UNCHANGED <<sockets, connectedUsers, rooms, storeVars, now, budget, crashed>>

---------------------------------------------------------------------------
(* Identification: group G0 of users 1 (s1) and 2 (s2); s3 is connected and   *)
(* has not identified; it sends every event that acts on groups, while s1 and *)
(* s2 ask for their groups                                                    *)

InitGuard ==
    /\ sockets = [c \in Conns |-> "open"]
    /\ connectedUsers = <<Entry("s1", 1), Entry("s2", 2)>>
    /\ rooms = [c \in Conns |-> IF c = "s3" THEN {} ELSE {G0}]
    /\ chat_groups = {TeamRow}
    /\ group_members = SetToBag({MemberRow(G0, 1), MemberRow(G0, 2)})
    /\ messages = {}
    /\ nextMsgId = 1
    /\ nextGroupRowId = 2
    /\ hasIsGroup = TRUE
    /\ queue = <<>>
    /\ now = 1
    /\ emitted = <<>>
    /\ resp = NoResp
    /\ budget = MaxEvents
    /\ faults = 0
    /\ crashed = FALSE

\* the events of connection c that act on groups, on G0 and users 1 to 3
GroupEvent(c) ==
    \/ CreateGroup(c, "Crew", <<Num(1), Num(2)>>)
    \/ GroupMessage(c, G0, "hi")
    \/ LeaveGroup(c, G0)
    \/ \E u \in {1, 2} : RemoveGroupMember(c, G0, Num(u))
    \/ AddGroupMembers(c, G0, <<Num(3)>>)
    \/ RequestGroups(c)

NextGuard ==
    \/ GroupEvent("s3")
    \/ \E c \in {"s1", "s2"} : RequestGroups(c)
    \/ \E c \in {"s2", "s3"} : Disconnect(c)
    \/ Tick
    \/ DbSendUserGroups

SpecGuard == InitGuard /\ [][NextGuard]_vars

\* C33: an event that acts on groups, from a connection with no registry
\* entry, queues no store call, changes no room, no table and no registry
\* entry, and emits nothing
C33_GroupEventsNeedIdentification ==
    [][\A c \in Conns : (~MapHas(connectedUsers, c) /\ GroupEvent(c)) =>
            /\ queue' = queue
            /\ rooms' = rooms
            /\ connectedUsers' = connectedUsers
            /\ storeVars' = storeVars
            /\ emitted' = <<>>]_vars

\* the one event handled so far came from s3 and left no trace: an event of s1
\* or s2 would be in the queue or answered
C33_Witness ==
    /\ budget = MaxEvents - 1
    /\ sockets = [c \in Conns |-> "open"]
    /\ ~MapHas(connectedUsers, "s3")
    /\ resp = NoResp
    /\ queue = <<>>
    /\ emitted = <<>>
    /\ rooms["s3"] = {}
    /\ chat_groups = {TeamRow}
    /\ MembersOf(G0) = {1, 2}
    /\ messages = {}

\* the same request from an identified connection is answered with its groups
C33_IdentifiedRequest ==
    /\ resp.q.q = "selectGroupsOfUser"
    /\ resp.err = "none"
    /\ resp.q.sock = "s2"
    /\ emitted[1].ev = "group-list"
    /\ emitted[1].to = {"s2"}
    /\ emitted[1].list = {[group_id |-> G0, name |-> TeamRow.name, creator_id |-> 1,
                           member_count |-> 2]}

====
